---------------------------- MODULE Spec2Model ----------------------------
(***************************************************************************)
(* Turn-processing state machine of the workflow agent                     *)
(* (agents/workflow_graph.py) and the generation service it calls          *)
(* (services/llm_service.py).                                              *)
(*                                                                         *)
(* The specifications below share the variables:                           *)
(*   SpecRetry  WorkflowGraph._invoke_with_retry called on its own, with   *)
(*              an explicit or defaulted retries argument;                 *)
(*   SpecLLM    LLMService.invoke, one call, against the raw model;        *)
(*   SpecContext  WorkflowGraph._get_pinecone_context, one call;           *)
(*   SpecEngine WorkflowEngine.execute on one document;                    *)
(*   Spec       the compiled graph: classify_intent, the router and the    *)
(*              four downstream nodes, one turn after another;             *)
(*   SpecConcurrent  two process calls in flight on one graph object;      *)
(*   SpecHost   the request handler of app.py, one request after another;  *)
(*   SpecOverlap  the request handler with two requests in flight;         *)
(*   SpecHistory  HistoryService.save and load on one file;                *)
(*   SpecNode   a node's model call: _invoke_with_retry over               *)
(*              LLMService.invoke, or LLMService.invoke alone.             *)
(***************************************************************************)
EXTENDS Integers, Sequences, FiniteSets, TLC

VARIABLES
    mode,        \* which entry point is being exercised: "retry", "llm", "graph", ...
    \* ---- the retry loop (_invoke_with_retry, LLMService.invoke) ----
    retries,     \* the retries argument: None or an integer
    max_retries, \* self.max_retries, read from configuration at construction
    structured,  \* the structured argument of the call
    attempt,     \* the loop variable of `for attempt in range(effective_retries)`
    rstat,       \* "idle", "running", "returned", "raised"
    rval,        \* the value returned by the call
    rerr,        \* the exception that left the call
    log,         \* what the loop did so far: capability calls and sleeps, in order
    raw,         \* what the capability answered to the latest call
    outcomes,    \* under SpecRetry: what the capability answered, call by call
    \* ---- the graph ----
    pc,          \* position of the current process call
    state,       \* the AgentState threaded through the nodes
    trace,       \* the nodes that ran in the current turn, in order
    ext,         \* the external calls of the current turn, in order
    pre,         \* the state handed to the turn, as it was when the turn began
    turns,       \* completed process calls
    \* ---- the context lookup (_get_pinecone_context) ----
    cstat,       \* "idle", "searched", "returned", "raised"
    results,     \* what query_components_tool._run did
    context,     \* the text returned to the caller
    \* ---- the workflow engine (WorkflowEngine.execute) ----
    estat,       \* "idle", "running", "returned", "raised"
    edoc,        \* the workflow argument of execute
    enext,       \* position in the structure of the node processed next
    acc,         \* the accumulator of _process_nodes
    eresult,     \* what execute returned, or the exception that left it
    dispatched,  \* the data entries handed to the SCM executor, in order
    \* ---- two process calls in flight on one graph object ----
    other,       \* the frame of the suspended call: its position, state and locals
    replies,     \* what the capabilities answer to the running call, call by call
    \* ---- the request handler (app.py process_prompt) ----
    handler,     \* the request in hand: its position and locals
    rcache,      \* Redis, the response cache: key -> entry
    rstate,      \* Redis, the session states: key -> entry
    db,          \* the interactions table, in timestamp order
    requests,    \* requests received so far
    \* ---- the history file (services/history_service.py) ----
    hfile,       \* the file named self.filename: missing, or its content
    loaded,      \* what the latest load did: the list returned or the exception
    hghost,      \* what the file was at first and what save was last given, per user
    hops,        \* calls of save and load so far
    \* ---- a second request in flight (app.py, process_prompt) ----
    peer,        \* the handler's frame of the other request, as `handler`
    \* ---- LLMService.invoke called from a node ----
    llm          \* the frame of LLMService.invoke: its loop and the model calls made

vars == <<mode, retries, max_retries, structured, attempt, rstat, rval, rerr,
          log, raw, outcomes, pc, state, trace, ext, pre, turns,
          cstat, results, context, estat, edoc, enext, acc, eresult, dispatched,
          other, replies, handler, rcache, rstate, db, requests,
          hfile, loaded, hghost, hops, peer, llm>>

retryVars == <<retries, max_retries, structured, attempt, rstat, rval, rerr,
               log, raw, outcomes>>

graphVars == <<pc, state, trace, ext, pre, turns>>

ctxVars == <<cstat, results, context>>

engVars == <<estat, edoc, enext, acc, eresult, dispatched>>

\* the variables of the components outside the graph
concVars == <<other, replies>>

hostVars == <<handler, rcache, rstate, db, requests, peer>>

histVars == <<hfile, loaded, hghost, hops>>

nodeVars == <<llm>>

auxVars == <<engVars, concVars, hostVars, histVars, nodeVars>>

---------------------------------------------------------------------------
(* Bounds of the model *)

\* largest retries argument / configured retry count explored
MaxRetries == 4

\* process calls made on one session
MaxTurns == 2

\* padding characters on either side of a classifier reply
MaxPad == 1

\* matches in one search result
MaxMatches == 2

\* requests received by the handler
MaxRequests == 2

\* calls of save and load on one history file
MaxOps == 3

\* structure nodes, and data entries, in a document handed to the engine
MaxNodes == 2

\* int(os.getenv("MAX_WORKFLOW_RETRIES", 3))
DefaultMaxRetries == 3

---------------------------------------------------------------------------
(* Values *)

RECURSIVE Pow2(_)
\* 2 ** n
Pow2(n) == IF n <= 0 THEN 1 ELSE 2 * Pow2(n - 1)


\* the JSON values a reply or the workflow field may hold.  A field of an
\* object is missing, null, or a list of named items.
FieldVal(p, items) == [p |-> p, items |-> items]

Missing == FieldVal("missing", <<>>)

Null == FieldVal("null", <<>>)

List(items) == FieldVal("list", items)

StructVals == {Missing, Null, List(<<>>), List(<<"a">>), List(<<"a", "b">>)}

DataVals == {Missing, Null, List(<<>>), List(<<"a">>)}

JObj(s, d) == [j |-> "obj", structure |-> s, data |-> d]

\* {}
JEmptyObj == JObj(Missing, Missing)

\* null
JNull == [j |-> "null", structure |-> Missing, data |-> Missing]

\* []
JEmptyList == [j |-> "emptylist", structure |-> Missing, data |-> Missing]

\* a non-empty JSON array such as [1]
JList == [j |-> "list", structure |-> Missing, data |-> Missing]

JObjects == {JObj(s, d) : s \in StructVals, d \in DataVals}

JValues == JObjects \cup {JNull, JEmptyList, JList}

\* Python truthiness of a JSON value: None, [] and {} are falsy
Truthy(v) ==
    CASE v.j = "null" -> FALSE
      [] v.j = "emptylist" -> FALSE
      [] v.j = "list" -> TRUE
      [] OTHER -> v # JEmptyObj

\* whether v has a .get method (only dict has)
HasGet(v) == v.j = "obj"

\* truthiness of v.get(key) for a dict v: a missing key gives None
GetTruthy(fv) == fv.p = "list" /\ Len(fv.items) > 0

\* Texts.  A text is plain (a sequence of tokens, no JSON in it), the
\* serialisation of a JSON value, or prose holding a ```json fence around
\* either of the two.
Plain(toks) == [k |-> "plain", toks |-> toks, v |-> JNull]

\* json.dumps(v)
JsonDumps(v) == [k |-> "json", toks |-> <<>>, v |-> v]

Fenced(v) == [k |-> "fenced", toks |-> <<>>, v |-> v]

FencedPlain == [k |-> "fencedplain", toks |-> <<"not json">>, v |-> JNull]

EmptyText == Plain(<<>>)

\* whether json.loads(t) returns (it raises JSONDecodeError otherwise)
JsonLoadsOk(t) == t.k = "json"

\* json.loads(t), where it returns
JsonLoads(t) == t.v

\* Exceptions: a type and the message str(e), a sequence of tokens
Exc(type, msg) == [type |-> type, msg |-> msg]

NoExc == Exc("", <<>>)

RetryLoopExited == Exc("RuntimeError", <<"Retry loop exited unexpectedly">>)

JSONDecodeError == Exc("JSONDecodeError", <<"Expecting value">>)

MissingKeys == Exc("ValueError", <<"Missing 'structure' or 'data' in workflow">>)

NoGetAttr == Exc("AttributeError", <<"object has no attribute 'get'">>)

\* the failures of a capability call
CapErrors == {Exc("ConnectionError", <<"transient">>), Exc("TimeoutError", <<"timed out">>)}

\* what one call of a capability does: it returns a text or raises
Ok(t) == [ok |-> TRUE, text |-> t, err |-> NoExc]

Fail(e) == [ok |-> FALSE, text |-> EmptyText, err |-> e]

\* entries of the log
CallEv(n) == [e |-> "call", n |-> n, d |-> 0]

SleepEv(n, d) == [e |-> "sleep", n |-> n, d |-> d]

NoRetries == [given |-> FALSE, n |-> 0]

Given(n) == [given |-> TRUE, n |-> n]

---------------------------------------------------------------------------
(* WorkflowGraph._invoke_with_retry *)

\* effective_retries = retries if retries is not None else self.max_retries
EffectiveRetries == IF retries.given THEN retries.n ELSE max_retries

\* an off-by-one in the test for the final attempt
IsLastAttemptOffByOne(a, eff) == a = eff

\* attempt == effective_retries - 1
IsLastAttempt(a, eff) == a = eff - 1

\* a linear backoff in place of the exponential one
SleepDelayLinear(a) == a + 1

\* time.sleep(2 ** attempt)
SleepDelay(a) == Pow2(a)

\* the result of the call computed but not returned
ReturnValueDropped(o) == Plain(<<"None">>)

\* return self.llm_service.invoke(...)
ReturnValue(o) == o.text

\* entering the call: the loop starts at attempt 0; with no iteration to run
\* (effective_retries <= 0) control falls to the raise after the loop
RetryEnter ==
    /\ attempt' = 0
    /\ log' = <<>>
    /\ rval' = EmptyText
    /\ UNCHANGED raw
    /\ IF EffectiveRetries <= 0
          THEN rstat' = "raised" /\ rerr' = RetryLoopExited
          ELSE rstat' = "running" /\ rerr' = NoExc

\* one iteration of the loop, the capability answering o
RetryAttempt(o) ==
    /\ rstat = "running"
    /\ raw' = o
    /\ IF o.ok
          THEN /\ rstat' = "returned"
               /\ rval' = ReturnValue(o)
               /\ log' = Append(log, CallEv(attempt))
               /\ UNCHANGED <<attempt, rerr>>
          ELSE IF IsLastAttempt(attempt, EffectiveRetries)
          THEN /\ rstat' = "raised"
               /\ rerr' = o.err
               /\ log' = Append(log, CallEv(attempt))
               /\ UNCHANGED <<attempt, rval>>
          ELSE /\ log' = log \o <<CallEv(attempt), SleepEv(attempt, SleepDelay(attempt))>>
               /\ attempt' = attempt + 1
               /\ IF attempt + 1 >= EffectiveRetries
                     THEN rstat' = "raised" /\ rerr' = RetryLoopExited
                     ELSE UNCHANGED <<rstat, rerr>>
               /\ UNCHANGED rval
    /\ UNCHANGED <<retries, max_retries, structured>>

---------------------------------------------------------------------------
(* Whitespace and quote stripping of plain texts *)

RECURSIVE LStrip(_, _)
\* toks without its leading tokens that are in chars
LStrip(toks, chars) ==
    IF toks # <<>> /\ Head(toks) \in chars THEN LStrip(Tail(toks), chars) ELSE toks

RECURSIVE RStrip(_, _)
\* toks without its trailing tokens that are in chars
RStrip(toks, chars) ==
    IF toks # <<>> /\ toks[Len(toks)] \in chars
       THEN RStrip(SubSeq(toks, 1, Len(toks) - 1), chars)
       ELSE toks

Whitespace == {" "}

Quotes == {"'", "\""}

\* str.strip(): leading and trailing whitespace removed.  A serialised JSON
\* value or a fence carries no outer whitespace that matters to its reader.
Strip(t) ==
    IF t.k = "plain" THEN Plain(RStrip(LStrip(t.toks, Whitespace), Whitespace)) ELSE t

\* str.strip("'\""): leading and trailing quote characters removed
StripQuotes(t) ==
    IF t.k = "plain" THEN Plain(RStrip(LStrip(t.toks, Quotes), Quotes)) ELSE t

---------------------------------------------------------------------------
(* LLMService.invoke *)

\* json_match.group(1) if json_match else response
FenceBody(t) ==
    CASE t.k = "fenced" -> JsonDumps(t.v)
      [] t.k = "fencedplain" -> Plain(t.toks)
      [] OTHER -> t

\* a check that the two keys are present, whatever they hold
StructuredValidKeysOnly(v) == v.structure.p # "missing" /\ v.data.p # "missing"

\* not (not json_response.get("structure") or not json_response.get("data"))
StructuredValid(v) == GetTruthy(v.structure) /\ GetTruthy(v.data)

\* the body of the try block for the model answering m: the value it
\* returns, or the exception it raises into the except clause
LLMTry(m) ==
    IF ~m.ok THEN Fail(m.err)
    ELSE LET response == Strip(m.text)
             json_str == FenceBody(response)
         IN  IF ~structured THEN Ok(response)
             ELSE IF ~JsonLoadsOk(json_str) THEN Fail(JSONDecodeError)
             ELSE IF ~HasGet(JsonLoads(json_str)) THEN Fail(NoGetAttr)
             ELSE IF ~StructuredValid(JsonLoads(json_str)) THEN Fail(MissingKeys)
             ELSE Ok(JsonDumps(JsonLoads(json_str)))

\* Exception(f"LLM error: {str(e)}")
LLMError(e) == Exc("Exception", <<"LLM error: ">> \o e.msg)

\* one iteration of the loop of LLMService.invoke, the model answering m
LLMAttempt(m) ==
    /\ rstat = "running"
    /\ raw' = m
    /\ LET r == LLMTry(m)
       IN  IF r.ok
              THEN /\ rstat' = "returned"
                   /\ rval' = r.text
                   /\ log' = Append(log, CallEv(attempt))
                   /\ UNCHANGED <<attempt, rerr>>
              ELSE IF attempt = EffectiveRetries - 1
              THEN /\ rstat' = "raised"
                   /\ rerr' = LLMError(r.err)
                   /\ log' = Append(log, CallEv(attempt))
                   /\ UNCHANGED <<attempt, rval>>
              ELSE /\ log' = log \o <<CallEv(attempt), SleepEv(attempt, Pow2(attempt))>>
                   /\ attempt' = attempt + 1
                   /\ IF attempt + 1 >= EffectiveRetries
                         THEN rstat' = "raised" /\ rerr' = RetryLoopExited
                         ELSE UNCHANGED <<rstat, rerr>>
                   /\ UNCHANGED rval
    /\ UNCHANGED <<retries, max_retries, structured>>

---------------------------------------------------------------------------
(* The turn state *)

\* Prompts: a string (a sequence of tokens) or a value of another type.
\* truthy is the value's Python truthiness.
Str(toks) == [type |-> "str", toks |-> toks, truthy |-> toks # <<>>]

\* None
NonePrompt == [type |-> "NoneType", toks |-> <<>>, truthy |-> FALSE]

\* a number such as 42
IntPrompt == [type |-> "int", toks |-> <<>>, truthy |-> TRUE]

\* the error field: {} until the wrapper fills it
NoError == [set |-> FALSE, message |-> <<>>, function |-> ""]

\* the state the host builds for a session it has never seen (app.py)
FreshState ==
    [prompt |-> Str(<<>>), history |-> <<>>, workflow |-> JObj(List(<<>>), List(<<>>)),
     intent |-> "None", response |-> EmptyText, awaiting_input |-> "False",
     next_question |-> EmptyText, error |-> NoError]

GraphIdle ==
    /\ pc = "idle"
    /\ state = FreshState
    /\ trace = <<>>
    /\ ext = <<>>
    /\ pre = FreshState
    /\ turns = 0

\* execute has not been called
EngineIdle ==
    /\ estat = "idle"
    /\ edoc = [j |-> "none", structure |-> [p |-> "missing", items |-> <<>>],
                data |-> [p |-> "missing", items |-> <<>>]]
    /\ enext = 0
    /\ acc = [status |-> "", steps |-> <<>>]
    /\ eresult = [kind |-> "", status |-> "", steps |-> <<>>, error |-> <<>>]
    /\ dispatched = <<>>

\* the capability replies of one process call: the reply to classify_intent
\* and the replies to the calls of the retry loop, in order
Replies(classify, node) == [classify |-> classify, node |-> node]

NoReplies == Replies(Ok(EmptyText), <<>>)

\* the reply to the call made after n calls; the last reply repeats
NextReply(r, n) == r.node[IF n < Len(r.node) THEN n + 1 ELSE Len(r.node)]

\* a process call that has not begun
IdleFrame ==
    [pc |-> "idle", state |-> FreshState, trace |-> <<>>, ext |-> <<>>, pre |-> FreshState,
     structured |-> FALSE, attempt |-> 0, rstat |-> "idle", rval |-> EmptyText,
     rerr |-> NoExc, log |-> <<>>, raw |-> Ok(EmptyText), replies |-> NoReplies]

\* no second process call
ConcIdle == other = IdleFrame /\ replies = NoReplies

\* session ids of the requests
Sessions == {"s1", "s2"}

\* hashlib.sha256(prompt.encode()).hexdigest(), by its first digits
Sha256(p) ==
    CASE p = Str(<<"create a workflow for Jira with GitHub">>) -> "66f9b3"
      [] p = Str(<<"what is this?">>) -> "d7ceda"
      [] p = Str(<<>>) -> "e3b0c4"
      [] OTHER -> "ffffff"

Digests == {"66f9b3", "d7ceda", "e3b0c4", "ffffff"}

\* f"cache:{session_id}:{prompt_hash}"
CacheKey(session_id, prompt) == <<"cache", session_id, Sha256(prompt)>>

\* f"state:{session_id}"
StateKey(session_id) == <<"state", session_id>>

CacheKeys == {<<"cache", s, h>> : s \in Sessions, h \in Digests}

StateKeys == {<<"state", s>> : s \in Sessions}

\* WorkflowResponse; workflow is None or the document
WorkflowResponse(c, s, w, q, i) ==
    [conversation |-> c, session_id |-> s, workflow |-> w, next_question |-> q,
     interaction_id |-> i]

NoResponse == WorkflowResponse(EmptyText, "", JNull, EmptyText, 0)

\* a Redis entry: absent, or a serialised value with its time to live
NoEntry == [present |-> FALSE, ttl |-> 0, state |-> FreshState, response |-> NoResponse]

\* set(key, json.dumps(state)): an entry that never expires
StateEntryNoExpiry(ttl, s) == [present |-> TRUE, ttl |-> 0, state |-> s, response |-> NoResponse]

\* setex(key, ttl, json.dumps(state))
StateEntry(ttl, s) == [present |-> TRUE, ttl |-> ttl, state |-> s, response |-> NoResponse]

\* setex(key, ttl, json.dumps(response_data.dict()))
ResponseEntry(ttl, r) == [present |-> TRUE, ttl |-> ttl, state |-> FreshState, response |-> r]

\* no request in hand
IdleHandler ==
    [pc |-> "idle", session_id |-> "", prompt |-> Str(<<>>), state |-> FreshState,
     workflow |-> JNull, conversation |-> EmptyText, interaction_id |-> 0,
     effects |-> <<>>, response |-> NoResponse, detail |-> <<>>, graph |-> "",
     base |-> FreshState,
     seen |-> [db |-> <<>>, rstate |-> [k \in StateKeys |-> NoEntry],
               rcache |-> [k \in CacheKeys |-> NoEntry]]]

\* the stores are empty and no request was received
HostIdle ==
    /\ handler = IdleHandler
    /\ peer = IdleHandler
    /\ rcache = [k \in CacheKeys |-> NoEntry]
    /\ rstate = [k \in StateKeys |-> NoEntry]
    /\ db = <<>>
    /\ requests = 0

\* users of the history service
Users == {"u1", "u2"}

\* an entry of a history as the caller holds it (a tuple) or as JSON holds
\* it (a list)
Pair(t, a, b) == [t |-> t, a |-> a, b |-> b]

\* the value stored under a user id in the file: absent, a list of entries,
\* or a value of another type
UserVal(p, items) == [p |-> p, items |-> items]

NoUserVal == UserVal("missing", <<>>)

\* the file: missing, or a text that is empty, blank, not JSON ("corrupt"),
\* a JSON object keyed by user id ("obj"), or another JSON value
FileOf(kind, users) == [kind |-> kind, users |-> users]

MissingFile == FileOf("missing", [u \in Users |-> NoUserVal])

\* load has not been called
NotLoaded == [kind |-> "", user |-> "", value |-> UserVal("list", <<>>), err |-> <<>>]

\* what save was last given for a user
NotSaved == [given |-> FALSE, history |-> <<>>]

\* the history service has not been used and its file does not exist
HistIdle ==
    /\ hfile = MissingFile
    /\ loaded = NotLoaded
    /\ hghost = [start |-> "missing", faults |-> FALSE, saved |-> [u \in Users |-> NotSaved]]
    /\ hops = 0

\* the components outside the graph are at rest
\* LLMService.invoke is not being called
LlmIdle ==
    [node |-> "", max_retries |-> 0, attempt |-> 0, stat |-> "idle", val |-> EmptyText,
     err |-> NoExc, calls |-> 0, slept |-> 0]

NodeIdle == llm = LlmIdle

AuxIdle == EngineIdle /\ ConcIdle /\ HostIdle /\ HistIdle /\ NodeIdle

\* no context lookup has been made
ContextIdle ==
    /\ cstat = "idle"
    /\ results = [how |-> "none", items |-> <<>>]
    /\ context = EmptyText

---------------------------------------------------------------------------
(* SpecRetry: _invoke_with_retry called directly, as the tests do *)

RetryArgs == {NoRetries} \cup {Given(n) : n \in (0 - 1) .. MaxRetries}

RetryTexts == {Plain(<<"success">>), EmptyText, JsonDumps(JObj(List(<<"a">>), List(<<"a">>)))}

RetryOutcomes == {Ok(t) : t \in RetryTexts} \cup {Fail(e) : e \in CapErrors}

InitRetry ==
    /\ mode = "retry"
    /\ retries \in RetryArgs
    /\ max_retries \in (0 - 1) .. MaxRetries
    /\ structured \in BOOLEAN
    /\ attempt = 0
    /\ rstat = "idle"
    /\ rval = EmptyText
    /\ rerr = NoExc
    /\ log = <<>>
    /\ raw = Ok(EmptyText)
    /\ outcomes = <<>>
    /\ GraphIdle
    /\ ContextIdle
    /\ AuxIdle

\* wg._invoke_with_retry(template, structured, retries, **kwargs)
InvokeWithRetry ==
    /\ mode = "retry"
    /\ rstat = "idle"
    /\ RetryEnter
    /\ UNCHANGED <<mode, retries, max_retries, structured, outcomes>>
    /\ UNCHANGED <<graphVars, ctxVars, auxVars>>

\* self.llm_service.invoke(template, structured, **kwargs), inside the loop;
\* outcomes keeps what the capability answered
InvokeWithRetryCall ==
    /\ mode = "retry"
    /\ \E o \in RetryOutcomes : RetryAttempt(o) /\ outcomes' = Append(outcomes, o)
    /\ UNCHANGED <<mode, pc, state, trace, ext, pre, turns, ctxVars, auxVars>>

NextRetry == InvokeWithRetry \/ InvokeWithRetryCall

SpecRetry == InitRetry /\ [][NextRetry]_vars

---------------------------------------------------------------------------
(* Reading the log *)

\* the capability calls made so far
NumCalls == Cardinality({p \in DOMAIN log : log[p].e = "call"})

\* whether zero-indexed attempt n has been made
Attempted(n) == \E p \in DOMAIN log : log[p] = CallEv(n)

\* the delay slept immediately before zero-indexed attempt n; 0 when the
\* attempt was made without a sleep before it
DelayBefore(n) ==
    LET p == CHOOSE q \in DOMAIN log : log[q] = CallEv(n)
    IN  IF p > 1 /\ log[p - 1].e = "sleep" THEN log[p - 1].d ELSE 0

\* every capability call so far failed
AllFailed == \A i \in DOMAIN outcomes : ~outcomes[i].ok

\* the last entry of the log is a capability call, not a sleep
EndsWithCall == Len(log) > 0 /\ log[Len(log)].e = "call"

---------------------------------------------------------------------------
(* Claims on _invoke_with_retry, checked under SpecRetry *)

\* C5: once the capability succeeds, on its k-th call, the loop has returned
\* exactly that call's result, k is within the retry bound, every earlier
\* call failed, and no call follows the success (exactly k calls are made).
C5_FirstSuccessReturned ==
    \A k \in DOMAIN outcomes :
        outcomes[k].ok =>
            /\ k = Len(outcomes)
            /\ NumCalls = k
            /\ k <= EffectiveRetries
            /\ \A i \in 1 .. (k - 1) : ~outcomes[i].ok
            /\ rstat = "returned"
            /\ rval = outcomes[k].text

\* C5 witness: the first call fails and the second succeeds
C5_Witness ==
    /\ mode = "retry"
    /\ rstat = "returned"
    /\ Len(outcomes) = 2
    /\ ~outcomes[1].ok
    /\ rval = Plain(<<"success">>)

C8_LastErrorReraised ==
    (mode = "retry" /\ rstat = "raised") =>
        /\ Len(outcomes) >= 1
        /\ ~outcomes[Len(outcomes)].ok
        /\ rerr = outcomes[Len(outcomes)].err

---------------------------------------------------------------------------
(* SpecLLM: one call of LLMService.invoke against the model *)

\* what the model may answer: prose, JSON of every shape, fenced or not
ModelTexts ==
    {Plain(<<"hello">>), Plain(<<" ", "hello", " ">>), EmptyText, FencedPlain}
        \cup {JsonDumps(v) : v \in JValues}
        \cup {Fenced(v) : v \in JValues}

ModelOutcomes == {Ok(t) : t \in ModelTexts} \cup {Fail(e) : e \in CapErrors}

InitLLM ==
    /\ mode = "llm"
    /\ retries \in RetryArgs
    /\ max_retries \in (0 - 1) .. MaxRetries
    /\ structured \in BOOLEAN
    /\ attempt = 0
    /\ rstat = "idle"
    /\ rval = EmptyText
    /\ rerr = NoExc
    /\ log = <<>>
    /\ raw = Ok(EmptyText)
    /\ outcomes = <<>>
    /\ GraphIdle
    /\ ContextIdle
    /\ AuxIdle

\* llm_service.invoke(template, structured, retries, **kwargs)
LLMInvoke ==
    /\ mode = "llm"
    /\ rstat = "idle"
    /\ RetryEnter
    /\ UNCHANGED <<mode, retries, max_retries, structured, outcomes>>
    /\ UNCHANGED <<graphVars, ctxVars, auxVars>>

\* self.llm.invoke(prompt.format(**kwargs)), inside the loop
LLMModelCall ==
    /\ mode = "llm"
    /\ \E m \in ModelOutcomes : LLMAttempt(m)
    /\ UNCHANGED <<mode, outcomes, pc, state, trace, ext, pre, turns, ctxVars, auxVars>>

NextLLM == LLMInvoke \/ LLMModelCall

SpecLLM == InitLLM /\ [][NextLLM]_vars

---------------------------------------------------------------------------
(* A node calling the model: classify_intent calls LLMService.invoke
   directly; generate_workflow, modify_workflow and handle_general call it
   through _invoke_with_retry, which passes no retries argument on, so the
   inner loop runs self.max_retries (MAX_LLM_RETRIES) iterations each time it
   is entered. *)

\* the nodes that call the model, and those that do so through _invoke_with_retry
ModelNodes == {"classify_intent", "generate_workflow", "modify_workflow", "handle_general"}

Wrapped(node) == node \in {"generate_workflow", "modify_workflow", "handle_general"}

\* the structured argument each node passes
StructuredArg(node) == node \in {"generate_workflow", "modify_workflow"}

\* what the model may answer to one call
NodeModelOutcomes ==
    {Ok(Plain(<<"hello">>)), Ok(JsonDumps(JObj(List(<<"a">>), List(<<"a">>)))),
     Fail(Exc("TimeoutError", <<"timed out">>))}

\* a loop variable that does not advance
NextAttemptStuck(a) == a

\* for attempt in range(effective_retries): the next value of the loop variable
NextAttempt(a) == a + 1

\* one iteration of the loop of LLMService.invoke in frame l, the try block
\* having produced r
InnerAttempt(l, r) ==
    IF r.ok
       THEN [l EXCEPT !.stat = "returned", !.val = r.text, !.calls = @ + 1]
    ELSE IF IsLastAttempt(l.attempt, l.max_retries)
       THEN [l EXCEPT !.stat = "raised", !.err = LLMError(r.err), !.calls = @ + 1]
    ELSE [l EXCEPT !.attempt = NextAttempt(@), !.calls = @ + 1,
                   !.slept = @ + SleepDelay(l.attempt)]

InitNode ==
    /\ mode = "node"
    /\ retries = NoRetries
    /\ max_retries \in 0 .. MaxRetries
    /\ \E n \in ModelNodes, k \in 0 .. MaxRetries :
          /\ structured = StructuredArg(n)
          /\ llm = [LlmIdle EXCEPT !.node = n, !.max_retries = k]
    /\ attempt = 0
    /\ rstat = "idle"
    /\ rval = EmptyText
    /\ rerr = NoExc
    /\ log = <<>>
    /\ raw = Ok(EmptyText)
    /\ outcomes = <<>>
    /\ GraphIdle
    /\ ContextIdle
    /\ EngineIdle
    /\ ConcIdle
    /\ HostIdle
    /\ HistIdle

notNode == <<mode, outcomes, graphVars, ctxVars, engVars, concVars, hostVars, histVars>>

\* the node reaches its call: _invoke_with_retry is entered, or, in
\* classify_intent, nothing stands between the node and LLMService.invoke
NodeCall ==
    /\ mode = "node"
    /\ rstat = "idle"
    /\ IF Wrapped(llm.node) THEN RetryEnter
       ELSE /\ attempt' = 0
            /\ log' = <<>>
            /\ rval' = EmptyText
            /\ rstat' = "running"
            /\ rerr' = NoExc
            /\ UNCHANGED raw
    /\ UNCHANGED <<notNode, retries, max_retries, structured, llm>>

\* self.llm_service.invoke(template, structured, **kwargs) is entered: its
\* loop starts at attempt 0, and with no iteration to run control falls to
\* the raise after the loop
NodeLLMEnter ==
    /\ mode = "node"
    /\ rstat = "running"
    /\ llm.stat = "idle"
    /\ llm' = IF llm.max_retries <= 0
                 THEN [llm EXCEPT !.attempt = 0, !.stat = "raised", !.err = RetryLoopExited]
                 ELSE [llm EXCEPT !.attempt = 0, !.stat = "running", !.err = NoExc]
    /\ UNCHANGED <<notNode, retryVars>>

\* self.llm.invoke(prompt.format(**kwargs)) and the rest of the iteration
NodeModelCall ==
    /\ mode = "node"
    /\ llm.stat = "running"
    /\ \E m \in NodeModelOutcomes : llm' = InnerAttempt(llm, LLMTry(m))
    /\ UNCHANGED <<notNode, retryVars>>

\* LLMService.invoke returns or raises into its caller: the iteration of
\* _invoke_with_retry that called it, or classify_intent itself
NodeLLMLeave ==
    /\ mode = "node"
    /\ rstat = "running"
    /\ llm.stat \in {"returned", "raised"}
    /\ LET o == IF llm.stat = "returned" THEN Ok(llm.val) ELSE Fail(llm.err)
       IN  IF Wrapped(llm.node) THEN RetryAttempt(o)
           ELSE /\ raw' = o
                /\ rstat' = llm.stat
                /\ rval' = o.text
                /\ rerr' = o.err
                /\ log' = Append(log, CallEv(attempt))
                /\ UNCHANGED <<attempt, retries, max_retries, structured>>
    /\ llm' = [llm EXCEPT !.stat = "idle"]
    /\ UNCHANGED notNode

NextNode == NodeCall \/ NodeLLMEnter \/ NodeModelCall \/ NodeLLMLeave

\* the code is sequential and each model call returns or raises, so a node
\* that can take a step takes it
SpecNode == InitNode /\ [][NextNode]_vars /\ WF_vars(NextNode)

---------------------------------------------------------------------------
(* Claims on LLMService.invoke, checked under SpecLLM *)

\* the JSON document a model reply carries, bare or inside a fence
CarriesJson(t) == t.k \in {"json", "fenced"}

\* a reply that is valid JSON holding a non-empty structure and a non-empty data
UsableReply(t) ==
    /\ CarriesJson(t)
    /\ t.v.j = "obj"
    /\ t.v.structure.p = "list" /\ t.v.structure.items # <<>>
    /\ t.v.data.p = "list" /\ t.v.data.items # <<>>

\* the latest attempt was handled as a failed one: nothing was returned, and
\* either it was the final attempt and the call raised, or the loop slept
\* 2^attempt and goes on to the next attempt
HandledAsFailure ==
    \/ /\ rstat = "raised"
       /\ NumCalls = EffectiveRetries
       /\ EndsWithCall
       /\ rerr.type = "Exception"
    \/ /\ rstat = "running"
       /\ attempt = NumCalls
       /\ attempt < EffectiveRetries
       /\ log[Len(log)] = SleepEv(attempt - 1, Pow2(attempt - 1))

\* C9: in structured mode a reply that is not valid JSON, or whose structure
\* or data is missing, null or empty, is handled exactly as a transport error
\* is (retried after the backoff, or raised on the final attempt) and is not
\* returned; a structured call that returns, returns the serialisation of
\* the reply's document, whose structure and data are non-empty.
C9_StructuredValidated ==
    (mode = "llm" /\ structured /\ NumCalls > 0) =>
        /\ (raw.ok /\ ~UsableReply(raw.text)) => HandledAsFailure
        /\ ~raw.ok => HandledAsFailure
        /\ rstat = "returned" =>
               /\ raw.ok
               /\ UsableReply(raw.text)
               /\ rval = JsonDumps(raw.text.v)
               /\ rval.v.structure.items # <<>>
               /\ rval.v.data.items # <<>>

\* a structured call that was retried once and has returned the second reply
C9_ReturnedAfterRetry ==
    /\ mode = "llm"
    /\ structured
    /\ rstat = "returned"
    /\ log = <<CallEv(0), SleepEv(0, 1), CallEv(1)>>
    /\ rval.v.structure.items = <<"a", "b">>

\* C9 witness: in a structured call the first reply, valid JSON with an empty
\* structure, was rejected and the loop is about to make its second attempt
C9_Witness ==
    /\ mode = "llm"
    /\ structured
    /\ rstat = "running"
    /\ raw = Ok(JsonDumps(JObj(List(<<>>), List(<<"a">>))))
    /\ attempt = 1

---------------------------------------------------------------------------
(* WorkflowGraph._get_pinecone_context and the search tool under it *)

\* the metadata of a match: the key is missing, or it holds null, or a dict
\* in which each of name, type and id is a string ("" when the key is absent)
Meta(p, name, type, id) == [p |-> p, name |-> name, type |-> type, id |-> id]

NoMeta == Meta("missing", "", "", "")

NullMeta == Meta("null", "", "", "")

Metas ==
    {NoMeta, NullMeta}
        \cup {Meta("dict", n, t, i) : n \in {"", "GitHub Enterprise"}, t \in {"", "scm"}, i \in {"", "id-1"}}

\* an element of what the search returned: a dict, or a string
Match(kind, meta) == [kind |-> kind, metadata |-> meta]

StrItem == Match("str", NoMeta)

Matches == {Match("dict", m) : m \in Metas} \cup {StrItem}

\* what a call of a search function does: it returns a list, returns the
\* error dict of tool_error_handler, or raises
ResultList(items) == [how |-> "list", items |-> items]

\* iterating {"status": ..., "message": ..., "details": ...} yields its keys
ErrorDict == [how |-> "errordict", items |-> <<StrItem, StrItem, StrItem>>]

SearchRaises == [how |-> "raise", items |-> <<>>]

PineconeDown == Exc("Exception", <<"Pinecone down">>)

\* tool_error_handler around the body of a tool: what the body returns is
\* returned, an exception of the body becomes the error dict
ToolErrorHandler(o) == IF o.how = "raise" THEN ErrorDict ELSE o

\* d.get(key, default) for the fields of a metadata dict
GetOr(val, default) == IF val = "" THEN default ELSE val

\* whether r.get('metadata', {}).get(...) returns: r must be a dict and its
\* metadata, when present, a dict
Formattable(r) == r.kind = "dict" /\ r.metadata.p \in {"missing", "dict"}

\* f"Name: {...}, Type: {...}, ID: {...}" for match r
FormatLine(r) ==
    <<"Name: ", GetOr(r.metadata.name, "unknown"),
      ", Type: ", GetOr(r.metadata.type, "unknown"),
      ", ID: ", GetOr(r.metadata.id, "N/A")>>

RECURSIVE JoinLines(_)
\* "\n".join(lines)
JoinLines(lines) ==
    IF lines = <<>> THEN <<>>
    ELSE IF Len(lines) = 1 THEN lines[1]
    ELSE lines[1] \o <<"\n">> \o JoinLines(Tail(lines))

NoContextFound == Plain(<<"No context found">>)

\* the join without its `or "No context found"`
OrNoContextFoundDropped(toks) == Plain(toks)

\* joined or "No context found": the empty string is falsy
OrNoContextFound(toks) == IF toks = <<>> THEN NoContextFound ELSE Plain(toks)

\* the try body of _get_pinecone_context, the search having done res
ContextTry(res) ==
    IF res.how = "raise" THEN Fail(PineconeDown)
    ELSE IF \E i \in DOMAIN res.items : ~Formattable(res.items[i]) THEN Fail(NoGetAttr)
    ELSE Ok(OrNoContextFound(JoinLines([i \in DOMAIN res.items |-> FormatLine(res.items[i])])))

\* the sequences of at most n elements of S
SeqsUpTo(S, n) == UNION {[1 .. k -> S] : k \in 0 .. n}

\* what query_components_tool._run may do: the wrapped tool returns what the
\* vector store returned or the error dict; a replaced tool may raise
SearchOutcomes ==
    {ToolErrorHandler(o) : o \in {ResultList(items) : items \in SeqsUpTo(Matches, MaxMatches)}
                                  \cup {SearchRaises}}
        \cup {SearchRaises}

InitContext ==
    /\ mode = "context"
    /\ retries = NoRetries
    /\ max_retries = DefaultMaxRetries
    /\ structured = FALSE
    /\ attempt = 0
    /\ rstat = "idle"
    /\ rval = EmptyText
    /\ rerr = NoExc
    /\ log = <<>>
    /\ raw = Ok(EmptyText)
    /\ outcomes = <<>>
    /\ GraphIdle
    /\ ContextIdle
    /\ AuxIdle

\* _get_pinecone_context(query) up to the return of query_components_tool._run
GetPineconeContext ==
    /\ mode = "context"
    /\ cstat = "idle"
    /\ results' \in SearchOutcomes
    /\ cstat' = "searched"
    /\ UNCHANGED <<mode, retryVars, graphVars, auxVars, context>>

\* _get_pinecone_context from there on: the join and the except branch
GetPineconeContextEnd ==
    /\ mode = "context"
    /\ cstat = "searched"
    /\ LET r == ContextTry(results)
       IN  context' = IF r.ok THEN r.text ELSE NoContextFound
    /\ cstat' = "returned"
    /\ UNCHANGED <<mode, retryVars, graphVars, auxVars, results>>

NextContext == GetPineconeContext \/ GetPineconeContextEnd

SpecContext == InitContext /\ [][NextContext]_vars

\* the matches of the search are all dicts whose metadata is absent or a dict
C17_AllFormattable ==
    /\ results.how = "list"
    /\ \A i \in DOMAIN results.items :
           /\ results.items[i].kind = "dict"
           /\ results.items[i].metadata.p # "null"

\* the line the claim's format gives for match r
C17_Line(r) ==
    <<"Name: ", IF r.metadata.name = "" THEN "unknown" ELSE r.metadata.name,
      ", Type: ", IF r.metadata.type = "" THEN "unknown" ELSE r.metadata.type,
      ", ID: ", IF r.metadata.id = "" THEN "N/A" ELSE r.metadata.id>>

\* C17: _get_pinecone_context never raises to its caller: once the search
\* has returned or raised, the call can only return.  It returns the
\* formatted matches, one per line and in order, when the search returned a
\* non-empty sequence of matches, and exactly "No context found" when the
\* search returned no results, returned an error value, or raised (and also
\* when an element of the result is not a dict with dict metadata, which
\* fails inside the try).
C17_ContextAbsorbsFailures ==
    /\ cstat \in {"idle", "searched", "returned"}
    /\ (mode = "context" /\ cstat = "searched") => ENABLED GetPineconeContextEnd
    /\ (mode = "context" /\ cstat = "returned") =>
           /\ (C17_AllFormattable /\ results.items # <<>>) =>
                  /\ context.k = "plain"
                  /\ context # NoContextFound
                  /\ Len(context.toks) = 7 * Len(results.items) - 1
                  /\ \A i \in DOMAIN results.items :
                         SubSeq(context.toks, 7 * i - 6, 7 * i - 1) = C17_Line(results.items[i])
                  /\ \A i \in 1 .. (Len(results.items) - 1) : context.toks[7 * i] = "\n"
           /\ (results.how = "list" /\ results.items = <<>>) => context = NoContextFound
           /\ results.how \in {"errordict", "raise"} => context = NoContextFound
           /\ ~C17_AllFormattable => context = NoContextFound

\* C17 witness: the search returned two matches, the second without a name
C17_Witness ==
    /\ mode = "context"
    /\ cstat = "returned"
    /\ results = ResultList(<<Match("dict", Meta("dict", "GitHub Enterprise", "scm", "id-1")),
                              Match("dict", Meta("dict", "", "scm", ""))>>)
    /\ context = Plain(<<"Name: ", "GitHub Enterprise", ", Type: ", "scm", ", ID: ", "id-1", "\n",
                         "Name: ", "unknown", ", Type: ", "scm", ", ID: ", "N/A">>)

\* the search failed inside the tool, which returned its error dict
C17_ErrorValueAbsorbed ==
    /\ mode = "context"
    /\ cstat = "returned"
    /\ results = ErrorDict
    /\ context = NoContextFound

---------------------------------------------------------------------------
(* WorkflowEngine.execute and _process_nodes (engine/workflow_engine.py) *)

\* a structure node; keys is whether the dict has its name and type keys
ENode(name, type) == [keys |-> TRUE, name |-> name, type |-> type]

\* the node {} of a malformed document
EmptyNode == [keys |-> FALSE, name |-> "", type |-> ""]

\* a data entry
EData(name, type) == [name |-> name, type |-> type]

\* a workflow document handed to the engine: a dict whose structure and data
\* are missing, null or lists
EDoc(s, d) == [j |-> "obj", structure |-> s, data |-> d]

\* {}, the explicitly empty document
EEmptyDoc == EDoc(Missing, Missing)

\* None
ENoneDoc == [j |-> "null", structure |-> Missing, data |-> Missing]

\* str.upper() of a node type
Upper(t) ==
    CASE t = "normal" -> "NORMAL"
      [] t = "Branch" -> "BRANCH"
      [] t = "weird" -> "WEIRD"
      [] OTHER -> t

\* what the call of the SCM executor does
ScmReturn(status, result) == [kind |-> "return", status |-> status, result |-> result]

ScmRaise == [kind |-> "raise", status |-> "", result |-> "validate_action failed"]

\* SCMExecutor.execute: the connector is registered, or it is not, or its
\* validate_action raises
ScmOutcomes ==
    {ScmReturn("success", "SCM action executed"),
     ScmReturn("failed", "Connector not found"),
     ScmRaise}

\* a step of the result; the fields a step does not have are ""
Step(node, type, status, result, reason) ==
    [node |-> node, type |-> type, status |-> status, result |-> result, reason |-> reason]

\* the result of execute: the accumulator, or the dict of the except branch
AccResult(a) == [kind |-> "acc", status |-> a.status, steps |-> a.steps, error |-> <<>>]

\* {"status": "failed", "error": str(e)}
ErrorResult(msg) == [kind |-> "error", status |-> "failed", steps |-> <<>>, error |-> msg]

\* execute left by an exception
Raised(msg) == [kind |-> "raised", status |-> "", steps |-> <<>>, error |-> msg]

\* len(workflow['structure']) in the log call that precedes the try: the
\* message of the exception it raises, <<>> when it returns
EntryError(doc) ==
    IF doc.j = "null" THEN <<"TypeError: 'NoneType' object is not subscriptable">>
    ELSE IF doc.structure.p = "missing" THEN <<"KeyError: 'structure'">>
    ELSE IF doc.structure.p = "null" THEN <<"TypeError: object of type 'NoneType' has no len()">>
    ELSE <<>>

\* next((d for d in workflow["data"] if d["name"] == node_name), None): the
\* positions of the entries named name
EntriesNamed(doc, name) == {k \in DOMAIN doc.data.items : doc.data.items[k].name = name}

FirstOf(S) == CHOOSE k \in S : \A m \in S : k <= m

\* key = (node_type, data_entry["type"] if node_type == "NORMAL" else None)
DispatchKey(node_type, d) == <<node_type, IF node_type = "NORMAL" THEN d.type ELSE "None">>

\* executor_map.get(key, default): the callable chosen
ExecutorFor(key) ==
    CASE key = <<"NORMAL", "EXTERNAL_SOURCE">> -> "lambda_triggered"
      [] key = <<"NORMAL", "SCM_ACTION">> -> "_execute_scm_action"
      [] key = <<"BRANCH", "None">> -> "_evaluate_branch"
      [] OTHER -> "lambda_invalid"

\* the positional arguments each callable takes
Arity(executor) == IF executor = "_execute_scm_action" THEN 1 ELSE 0

\* a dispatch that calls every executor with the arguments it takes
ArgsPassedMatching(key) == Arity(ExecutorFor(key))

\* executor() if key[0] != "NORMAL" else executor(data_entry): the number of
\* arguments passed
ArgsPassed(key) == IF key[1] # "NORMAL" THEN 0 ELSE 1

LambdaTypeError == <<"TypeError: <lambda>() takes 0 positional arguments but 1 was given">>

\* one iteration of the loop of _process_nodes on node, the SCM executor
\* doing scm if it is called: the step appended ("step"), the early return
\* ("nodata"), or the exception raised ("raise")
ProcessOne(node, doc, scm) ==
    IF ~node.keys THEN [kind |-> "raise", err |-> <<"KeyError: 'name'">>, called |-> FALSE]
    ELSE IF doc.data.p = "missing" THEN [kind |-> "raise", err |-> <<"KeyError: 'data'">>, called |-> FALSE]
    ELSE IF doc.data.p = "null"
       THEN [kind |-> "raise", err |-> <<"TypeError: 'NoneType' object is not iterable">>, called |-> FALSE]
    ELSE IF EntriesNamed(doc, node.name) = {}
       THEN [kind |-> "nodata", step |-> Step(node.name, "", "failed", "", "No matching data")]
    ELSE LET d == doc.data.items[FirstOf(EntriesNamed(doc, node.name))]
             node_type == Upper(node.type)
             key == DispatchKey(node_type, d)
             executor == ExecutorFor(key)
         IN  IF ArgsPassed(key) # Arity(executor)
                THEN [kind |-> "raise", err |-> LambdaTypeError, called |-> FALSE]
             ELSE IF executor = "_execute_scm_action"
                THEN IF scm.kind = "raise"
                        THEN [kind |-> "raise", err |-> <<scm.result>>, called |-> TRUE, entry |-> d]
                        ELSE [kind |-> "step", called |-> TRUE, entry |-> d,
                              step |-> Step(node.name, node_type, scm.status, scm.result, "")]
             ELSE IF executor = "_evaluate_branch"
                THEN [kind |-> "step", called |-> FALSE,
                      step |-> Step(node.name, node_type, "branched to true", "", "")]
             ELSE IF executor = "lambda_triggered"
                THEN [kind |-> "step", called |-> FALSE,
                      step |-> Step(node.name, node_type, "triggered", "", "")]
             ELSE [kind |-> "step", called |-> FALSE,
                   step |-> Step(node.name, node_type, "failed", "Invalid node type", "")]

\* the early return that leaves the status as it was
AfterNoDataStatusKept(a, step) == [status |-> a.status, steps |-> Append(a.steps, step)]

\* the accumulator returned when a node has no data entry
AfterNoData(a, step) == [status |-> "failed", steps |-> Append(a.steps, step)]

\* the nodes a structure is made of
EngineNodes ==
    {ENode(n, t) : n \in {"a", "b"}, t \in {"normal", "Branch", "weird"}} \cup {EmptyNode}

\* the entries a data list is made of
EngineEntries ==
    {EData(n, t) : n \in {"a", "b"}, t \in {"SCM_ACTION", "EXTERNAL_SOURCE", "OTHER"}}

\* the documents handed to execute
EngineDocs ==
    {ENoneDoc, EEmptyDoc}
        \cup {EDoc(s, d) : s \in {Null} \cup {List(ns) : ns \in SeqsUpTo(EngineNodes, MaxNodes)},
                           d \in {Missing, Null}
                                  \cup {List(es) : es \in SeqsUpTo(EngineEntries, MaxNodes)}}

\* the variables the engine leaves alone
notEngine == <<mode, retryVars, graphVars, ctxVars, concVars, hostVars, histVars, nodeVars>>

InitEngine ==
    /\ mode = "engine"
    /\ NodeIdle
    /\ retries = NoRetries
    /\ max_retries = DefaultMaxRetries
    /\ structured = FALSE
    /\ attempt = 0
    /\ rstat = "idle"
    /\ rval = EmptyText
    /\ rerr = NoExc
    /\ log = <<>>
    /\ raw = Ok(EmptyText)
    /\ outcomes = <<>>
    /\ GraphIdle
    /\ ContextIdle
    /\ ConcIdle
    /\ HostIdle
    /\ HistIdle
    /\ estat = "idle"
    /\ edoc \in EngineDocs
    /\ enext = 0
    /\ acc = [status |-> "", steps |-> <<>>]
    /\ eresult = [kind |-> "", status |-> "", steps |-> <<>>, error |-> <<>>]
    /\ dispatched = <<>>

\* execute(workflow) up to the first iteration of _process_nodes: the log
\* call before the try raises out of execute, or the accumulator is created
EngineExecute ==
    /\ mode = "engine"
    /\ estat = "idle"
    /\ IF EntryError(edoc) # <<>>
          THEN /\ estat' = "raised"
               /\ eresult' = Raised(EntryError(edoc))
               /\ UNCHANGED <<acc, enext>>
          ELSE /\ estat' = "running"
               /\ acc' = [status |-> "completed", steps |-> <<>>]
               /\ enext' = 1
               /\ UNCHANGED eresult
    /\ UNCHANGED <<notEngine, edoc, dispatched>>

\* one iteration of the loop of _process_nodes, with the except branch of
\* execute when it raises
EngineProcessNode ==
    /\ mode = "engine"
    /\ estat = "running"
    /\ enext \in DOMAIN edoc.structure.items
    /\ \E scm \in ScmOutcomes :
          LET node == edoc.structure.items[enext]
              r == ProcessOne(node, edoc, scm)
          IN  /\ dispatched' = IF r.kind # "nodata" /\ r.called
                                   THEN Append(dispatched, [node |-> enext, entry |-> r.entry])
                                   ELSE dispatched
              /\ CASE r.kind = "raise" ->
                         /\ estat' = "returned"
                         /\ eresult' = ErrorResult(r.err)
                         /\ UNCHANGED <<acc, enext>>
                    [] r.kind = "nodata" ->
                         /\ estat' = "returned"
                         /\ acc' = AfterNoData(acc, r.step)
                         /\ eresult' = AccResult(acc')
                         /\ UNCHANGED enext
                    [] r.kind = "step" ->
                         /\ acc' = [acc EXCEPT !.steps = Append(@, r.step)]
                         /\ enext' = enext + 1
                         /\ UNCHANGED <<estat, eresult>>
    /\ UNCHANGED <<notEngine, edoc>>

\* the return of _process_nodes after the last node, and of execute
EngineReturn ==
    /\ mode = "engine"
    /\ estat = "running"
    /\ enext = Len(edoc.structure.items) + 1
    /\ estat' = "returned"
    /\ eresult' = AccResult(acc)
    /\ UNCHANGED <<notEngine, edoc, enext, acc, dispatched>>

NextEngine == EngineExecute \/ EngineProcessNode \/ EngineReturn

SpecEngine == InitEngine /\ [][NextEngine]_vars

---------------------------------------------------------------------------
(* SpecHistory: HistoryService.save and load on one file *)

\* json.dump(history): a tuple is written as a list
ToJson(h) == [i \in DOMAIN h |-> Pair("list", h[i].a, h[i].b)]

\* the histories handed to save
Histories ==
    {<<>>, <<Pair("tuple", "hello", "Hi!")>>,
     <<Pair("list", "hello", "Hi!"), Pair("list", "create workflow", "Done")>>}

NoUsers == [u \in Users |-> NoUserVal]

\* the files the service may find
InitialFiles ==
    {MissingFile, FileOf("empty", NoUsers), FileOf("blank", NoUsers),
     FileOf("corrupt", NoUsers), FileOf("list", NoUsers), FileOf("null", NoUsers),
     FileOf("obj", [NoUsers EXCEPT !["u1"] = UserVal("num", <<>>)]),
     FileOf("obj", [NoUsers EXCEPT !["u1"] = UserVal("list", <<Pair("list", "hello", "Hi!")>>)])}

LoadReturned(user, v) == [kind |-> "returned", user |-> user, value |-> v, err |-> <<>>]

LoadRaised(user, e) ==
    [kind |-> "raised", user |-> user, value |-> UserVal("list", <<>>), err |-> e]

\* load(user_id) on file, open raising IOError when ioerror
Load(file, user, ioerror) ==
    IF file.kind = "missing" THEN LoadReturned(user, UserVal("list", <<>>))
    ELSE IF ioerror THEN LoadReturned(user, UserVal("list", <<>>))
    ELSE IF file.kind \in {"empty", "blank"} THEN LoadReturned(user, UserVal("list", <<>>))
    ELSE IF file.kind = "corrupt" THEN LoadReturned(user, UserVal("list", <<>>))
    ELSE IF file.kind # "obj"
       THEN LoadRaised(user, <<"AttributeError: object has no attribute 'get'">>)
    ELSE LET history == IF file.users[user].p = "missing" THEN UserVal("list", <<>>)
                        ELSE file.users[user]
         IN  IF history.p = "list" THEN LoadReturned(user, history)
             ELSE LoadRaised(user, <<"TypeError: object has no len()">>)

\* the file after save(user_id, history): open(filename, "w") fails and the
\* file is as it was, or it truncates the file and the write fails, or the
\* file holds {user_id: history}
Save(file, user, history, outcome) ==
    CASE outcome = "open fails" -> file
      [] outcome = "write fails" -> FileOf("empty", NoUsers)
      [] OTHER -> FileOf("obj", [NoUsers EXCEPT ![user] = UserVal("list", ToJson(history))])

InitHistory ==
    /\ mode = "history"
    /\ NodeIdle
    /\ retries = NoRetries
    /\ max_retries = DefaultMaxRetries
    /\ structured = FALSE
    /\ attempt = 0
    /\ rstat = "idle"
    /\ rval = EmptyText
    /\ rerr = NoExc
    /\ log = <<>>
    /\ raw = Ok(EmptyText)
    /\ outcomes = <<>>
    /\ GraphIdle
    /\ ContextIdle
    /\ EngineIdle
    /\ ConcIdle
    /\ HostIdle
    /\ hfile \in InitialFiles
    /\ loaded = NotLoaded
    /\ hghost = [start |-> hfile.kind, faults |-> FALSE, saved |-> [u \in Users |-> NotSaved]]
    /\ hops = 0

notHistory == <<mode, retryVars, graphVars, ctxVars, engVars, concVars, hostVars, nodeVars>>

\* history_service.save(user_id, history)
HistorySave ==
    /\ mode = "history"
    /\ hops < MaxOps
    /\ \E u \in Users, h \in Histories, outcome \in {"ok", "open fails", "write fails"} :
          /\ hfile' = Save(hfile, u, h, outcome)
          /\ hghost' = [hghost EXCEPT !.saved[u] = [given |-> TRUE, history |-> h],
                                       !.faults = @ \/ outcome # "ok"]
    /\ hops' = hops + 1
    /\ UNCHANGED <<notHistory, loaded>>

\* history_service.load(user_id)
HistoryLoad ==
    /\ mode = "history"
    /\ hops < MaxOps
    /\ \E u \in Users, ioerror \in BOOLEAN :
          /\ loaded' = Load(hfile, u, ioerror)
          /\ hghost' = [hghost EXCEPT !.faults = @ \/ (ioerror /\ hfile.kind # "missing")]
    /\ hops' = hops + 1
    /\ UNCHANGED <<notHistory, hfile>>

NextHistory == HistorySave \/ HistoryLoad

SpecHistory == InitHistory /\ [][NextHistory]_vars

\* C32: after any sequence of save calls for any users on one file, load(u)
\* returns the history most recently saved for u, and [] for a user for
\* whom nothing was saved
C32_LoadReturnsLastSaved ==
    (mode = "history" /\ loaded.kind # "" /\ hghost.start = "missing" /\ ~hghost.faults) =>
        /\ loaded.kind = "returned"
        /\ loaded.value.p = "list"
        /\ loaded.value.items =
               IF hghost.saved[loaded.user].given
                  THEN ToJson(hghost.saved[loaded.user].history) ELSE <<>>

\* C33: load never raises: for a missing file, an empty file, a file with
\* corrupt JSON or one whose JSON content is not an object keyed by user id
\* it returns []
C33_LoadNeverRaises ==
    /\ loaded.kind # "raised"
    /\ (loaded.kind = "returned" /\ hfile.kind # "obj") => loaded.value = UserVal("list", <<>>)

---------------------------------------------------------------------------
(* The graph: texts the nodes write *)

ClarifyMsg == Plain(<<"I'm not sure what you mean. Can you clarify?">>)

ClarifyQ == Plain(<<"Can you clarify?">>)

NeedDetailsMsg ==
    Plain(<<"I need more details to create a workflow. What specific actions or conditions do you want?">>)

SpecificsQ == Plain(<<"What specific actions or conditions do you want?">>)

CreatedMsg == Plain(<<"Let's build it! I've created a workflow based on your request.">>)

AnythingElseQ == Plain(<<"Anything else to add?">>)

CouldntGenerateMsg ==
    Plain(<<"I couldn't generate a workflow yet. What specific actions or conditions do you want?">>)

UpdatedMsg == Plain(<<"Got it. I've updated the workflow for you.">>)

CouldntUpdateMsg == Plain(<<"I couldn't update the workflow. What do you want to change?">>)

ChangeQ == Plain(<<"What do you want to change?">>)

ErrorMsg == Plain(<<"An error occurred. Please try again or clarify.">>)

AssistTodayQ == Plain(<<"How can I assist you today?">>)

NextQ == Plain(<<"What do you want to do next?">>)

AssistFurtherQ == Plain(<<"How can I assist you further?">>)

\* str.capitalize() of a captured name
Capitalize(w) ==
    CASE w = "alice" -> "Alice"
      [] w = "BOB" -> "Bob"
      [] OTHER -> w

\* f"Hi {name}! How can I assist you today?"
Greeting(name) == Plain(<<"Hi ", name, "! How can I assist you today?">>)

\* str.lower() of a token
Lower(w) ==
    CASE w = "My name is " -> "my name is "
      [] w = "Start New Workflow" -> "start new workflow"
      [] w = "BOB" -> "bob"
      [] OTHER -> w

\* tokens that \w+ matches
Words == {"alice", "BOB"}

\* the positions where re.search(r"my name is (\w+)", prompt, re.IGNORECASE)
\* can match: the phrase followed by a word
NameMatches(toks) ==
    {i \in 1 .. (Len(toks) - 1) : Lower(toks[i]) = "my name is " /\ toks[i + 1] \in Words}

\* name_match.group(1) of the first match
CapturedName(toks) == toks[(CHOOSE i \in NameMatches(toks) : \A j \in NameMatches(toks) : i <= j) + 1]

\* "start new workflow" in state["prompt"].lower()
MentionsStart(toks) == \E i \in DOMAIN toks : Lower(toks[i]) = "start new workflow"

---------------------------------------------------------------------------
(* The graph: error containment and routing *)

IntentSet == {"new_workflow", "modify_workflow", "general", "unclear"}

\* the except branch resetting the workflow, as the one of generate_workflow
\* does
ErrorHandlerResetsWorkflow(func, s, e) ==
    [s EXCEPT !.response = ErrorMsg,
              !.intent = "unclear",
              !.workflow = JEmptyObj,
              !.awaiting_input = "True",
              !.error = [set |-> TRUE, message |-> e.msg, function |-> func]]

\* the except branch without its assignment of intent
ErrorHandlerKeepsIntent(func, s, e) ==
    [s EXCEPT !.response = ErrorMsg,
              !.awaiting_input = "True",
              !.error = [set |-> TRUE, message |-> e.msg, function |-> func]]

\* the except branch recording its own fixed text instead of str(e)
ErrorHandlerGenericMessage(func, s, e) ==
    [s EXCEPT !.response = ErrorMsg,
              !.intent = "unclear",
              !.awaiting_input = "True",
              !.error = [set |-> TRUE, message |-> ErrorMsg.toks, function |-> func]]

\* the except branch of enterprise_error_handler, for exception e raised by
\* node func on state s
ErrorHandler(func, s, e) ==
    [s EXCEPT !.response = ErrorMsg,
              !.intent = "unclear",
              !.awaiting_input = "True",
              !.error = [set |-> TRUE, message |-> e.msg, function |-> func]]

\* _route_intent: state["intent"] or "unclear"
RouteIntent(s) == IF s.intent \in {"None", ""} THEN "unclear" ELSE s.intent

\* the mapping with the general intent wired to the wrong node
NodeForMiswired(route) ==
    CASE route = "new_workflow" -> "generate_workflow"
      [] route = "modify_workflow" -> "modify_workflow"
      [] route = "unclear" -> "handle_unclear"
      [] route = "general" -> "handle_unclear"
      [] OTHER -> "raise"

\* the mapping given to add_conditional_edges; a route outside it makes the
\* graph raise
NodeFor(route) ==
    CASE route = "new_workflow" -> "generate_workflow"
      [] route = "modify_workflow" -> "modify_workflow"
      [] route = "unclear" -> "handle_unclear"
      [] route = "general" -> "handle_general"
      [] OTHER -> "raise"

\* the reply stored after stripping, without the membership test
ClassifiedIntentUnvalidated(t) ==
    LET intent == StripQuotes(Strip(t))
    IN  IF intent.k = "plain" /\ Len(intent.toks) = 1 THEN intent.toks[1] ELSE "unclear"

\* the intent stored for raw classifier reply t
ClassifiedIntent(t) ==
    LET intent == StripQuotes(Strip(t))
    IN  IF intent.k = "plain" /\ Len(intent.toks) = 1 /\ intent.toks[1] \in IntentSet
           THEN intent.toks[1]
           ELSE "unclear"

---------------------------------------------------------------------------
(* The graph: node bodies *)

\* the short-circuit test without its isinstance half
DegeneratePromptFalsyOnly(p) == ~p.truthy

\* classify_intent short-circuits on a prompt that is empty or not a string
DegeneratePrompt(p) == ~p.truthy \/ p.type # "str"

\* classify_intent on the short-circuit path
ClassifyDegenerate(s) ==
    [s EXCEPT !.intent = "unclear", !.response = ClarifyMsg, !.next_question = ClarifyQ]

\* classify_intent past the short-circuit, the capability answering o
ClassifyCalled(s, o) ==
    IF o.ok THEN [s EXCEPT !.intent = ClassifiedIntent(o.text)]
    ELSE ErrorHandler("classify_intent", s, o.err)

\* the need-more-details branch without the reset of the workflow
GenerateNeedDetailsKeepsWorkflow(s) ==
    [s EXCEPT !.response = NeedDetailsMsg, !.next_question = SpecificsQ,
              !.awaiting_input = "True"]

\* the two failure outcomes of generate_workflow
GenerateNeedDetails(s) ==
    [s EXCEPT !.response = NeedDetailsMsg, !.next_question = SpecificsQ,
              !.workflow = JEmptyObj, !.awaiting_input = "True"]

\* the except branch of generate_workflow returning without the assignment
\* of awaiting_input that follows it
GenerateFailedNotAwaiting(s) ==
    [s EXCEPT !.response = CouldntGenerateMsg, !.next_question = SpecificsQ,
              !.workflow = JEmptyObj]

GenerateFailed(s) ==
    [s EXCEPT !.response = CouldntGenerateMsg, !.next_question = SpecificsQ,
              !.workflow = JEmptyObj, !.awaiting_input = "True"]

\* generate_workflow after _invoke_with_retry ended with status st
\* ("returned" with value val, or "raised")
GenerateResult(s, st, val) ==
    IF st = "raised" THEN GenerateFailed(s)
    ELSE IF ~JsonLoadsOk(val) THEN GenerateFailed(s)
    ELSE LET workflow == JsonLoads(val)
         IN  IF ~Truthy(workflow) THEN GenerateNeedDetails(s)
             ELSE IF ~HasGet(workflow) THEN GenerateFailed(s)
             ELSE IF ~GetTruthy(workflow.structure) \/ ~GetTruthy(workflow.data)
                THEN GenerateNeedDetails(s)
             ELSE [s EXCEPT !.workflow = workflow, !.response = CreatedMsg,
                            !.next_question = AnythingElseQ, !.awaiting_input = "True"]

\* a field of the merged document: the reply's when the reply has it
MergedField(new, old) == IF new.p = "missing" THEN old ELSE new

\* modify_workflow merging the reply into the prior document field by field
ModifyResultMerges(s, st, val) ==
    IF st = "raised" \/ ~JsonLoadsOk(val)
       THEN [s EXCEPT !.response = CouldntUpdateMsg, !.next_question = ChangeQ,
                      !.awaiting_input = "True"]
       ELSE LET new == JsonLoads(val)
            IN  [s EXCEPT !.workflow = IF HasGet(new) /\ HasGet(s.workflow)
                                          THEN JObj(MergedField(new.structure, s.workflow.structure),
                                                    MergedField(new.data, s.workflow.data))
                                          ELSE new,
                          !.response = UpdatedMsg,
                          !.next_question = AnythingElseQ, !.awaiting_input = "True"]

\* modify_workflow with an except branch that resets the workflow, as the
\* one of generate_workflow does
ModifyResultResets(s, st, val) ==
    IF st = "raised" \/ ~JsonLoadsOk(val)
       THEN [s EXCEPT !.response = CouldntUpdateMsg, !.next_question = ChangeQ,
                      !.workflow = JEmptyObj, !.awaiting_input = "True"]
       ELSE [s EXCEPT !.workflow = JsonLoads(val), !.response = UpdatedMsg,
                      !.next_question = AnythingElseQ, !.awaiting_input = "True"]

\* modify_workflow after _invoke_with_retry ended
ModifyResult(s, st, val) ==
    IF st = "raised" \/ ~JsonLoadsOk(val)
       THEN [s EXCEPT !.response = CouldntUpdateMsg, !.next_question = ChangeQ,
                      !.awaiting_input = "True"]
       ELSE [s EXCEPT !.workflow = JsonLoads(val), !.response = UpdatedMsg,
                      !.next_question = AnythingElseQ, !.awaiting_input = "True"]

\* handle_unclear starting the conversation over
UnclearResultClearsHistory(s) ==
    [s EXCEPT !.response = ClarifyMsg, !.next_question = ClarifyQ, !.awaiting_input = "True",
              !.history = <<>>]

\* handle_unclear
UnclearResult(s) ==
    [s EXCEPT !.response = ClarifyMsg, !.next_question = ClarifyQ, !.awaiting_input = "True"]

\* the greeting built from the captured name as typed, without capitalize()
GeneralGreetingVerbatim(s) ==
    [s EXCEPT !.response = Greeting(CapturedName(s.prompt.toks)),
              !.next_question = AssistTodayQ, !.awaiting_input = "True"]

\* handle_general on a prompt with a self-introduction
GeneralGreeting(s) ==
    [s EXCEPT !.response = Greeting(Capitalize(CapturedName(s.prompt.toks))),
              !.next_question = AssistTodayQ, !.awaiting_input = "True"]

\* handle_general whose containment leaves intent as classified
GeneralResultKeepsIntent(s, st, val, e) ==
    IF st = "raised" THEN [ErrorHandler("handle_general", s, e) EXCEPT !.intent = s.intent]
    ELSE [s EXCEPT !.response = val,
                   !.next_question = IF MentionsStart(s.prompt.toks) THEN NextQ ELSE AssistFurtherQ,
                   !.awaiting_input = "True"]

\* handle_general after _invoke_with_retry ended
GeneralResult(s, st, val, e) ==
    IF st = "raised" THEN ErrorHandler("handle_general", s, e)
    ELSE [s EXCEPT !.response = val,
                   !.next_question = IF MentionsStart(s.prompt.toks) THEN NextQ ELSE AssistFurtherQ,
                   !.awaiting_input = "True"]

---------------------------------------------------------------------------
(* Spec: the compiled graph, one process call after another *)

Prompts ==
    {Str(<<>>), NonePrompt, IntPrompt,
     Str(<<"create a workflow for Jira with GitHub">>),
     Str(<<"My name is ", "alice">>),
     Str(<<"Start New Workflow">>),
     Str(<<"what is this?">>)}

PadChars == {" ", "'", "\""}

\* the sequences of at most n padding characters
PadSeqs(n) == UNION {[1 .. k -> PadChars] : k \in 0 .. n}

\* raw classifier replies: nothing, a label or another word, padded with
\* whitespace and quotes on either side.  The padded replies are explored on
\* the first turn of a session, the bare ones on every turn.
ClassifierReplies ==
    {Plain(l \o c \o t) :
        l \in PadSeqs(IF turns = 0 THEN MaxPad ELSE 0),
        t \in PadSeqs(IF turns = 0 THEN MaxPad ELSE 0),
        c \in {<<>>} \cup {<<w>> : w \in IntentSet \cup {"something_random"}}}

StructuredReplies ==
    {JsonDumps(v) : v \in JValues}
        \cup {Plain(<<"Sorry, I cannot do that.">>), Fenced(JObj(List(<<"a">>), List(<<"a">>)))}

GeneralReplies == {Plain(<<"We support GitHub and Jira.">>), EmptyText}

\* what the classifier call may do; two calls in flight are each given the
\* replies they would be given alone
ClassifierOutcomes ==
    IF mode = "concurrent" THEN {replies.classify}
    ELSE {Ok(t) : t \in ClassifierReplies} \cup {Fail(e) : e \in CapErrors}

\* what llm_service.invoke may do when a node calls it through the retry loop
NodeOutcomes ==
    IF mode = "concurrent" THEN {NextReply(replies, NumCalls)}
    ELSE {Ok(t) : t \in IF structured THEN StructuredReplies ELSE GeneralReplies}
             \cup {Fail(e) : e \in CapErrors}

\* the history of a state the host hands in: empty in the state built for a
\* session never seen (intent None), the (prompt, response) pairs of earlier
\* interactions in a state that was stored before
InputHistory(i) ==
    IF i = "None" THEN <<>>
    ELSE <<<<"hi", "Hello!">>, <<"what is this?", "A workflow agent.">>>>

Init ==
    /\ mode = "graph"
    /\ retries = NoRetries
    /\ max_retries \in {0, DefaultMaxRetries}
    /\ structured = FALSE
    /\ attempt = 0
    /\ rstat = "idle"
    /\ rval = EmptyText
    /\ rerr = NoExc
    /\ log = <<>>
    /\ raw = Ok(EmptyText)
    /\ outcomes = <<>>
    /\ pc = "idle"
    /\ state \in {[FreshState EXCEPT !.intent = i, !.awaiting_input = a,
                                      !.history = InputHistory(i)] :
                     i \in {"None", "bogus"}, a \in {"False", "None"}}
    /\ trace = <<>>
    /\ ext = <<>>
    /\ pre = state
    /\ turns = 0
    /\ ContextIdle
    /\ AuxIdle

config == <<mode, retries, max_retries, outcomes, ctxVars, auxVars>>

locals == <<structured, attempt, rstat, rval, rerr, log>>

\* graph.invoke(state), the host having stored the new prompt in the state
Process ==
    /\ mode = "graph"
    /\ pc = "idle"
    /\ turns < MaxTurns
    /\ \E p \in Prompts : state' = [state EXCEPT !.prompt = p]
    /\ pre' = state'
    /\ trace' = <<>>
    /\ ext' = <<>>
    /\ pc' = "classify_intent"
    /\ UNCHANGED <<config, locals, raw, turns>>

\* the wrapped classify_intent node
ClassifyIntent ==
    /\ pc = "classify_intent"
    /\ trace' = Append(trace, "classify_intent")
    /\ pc' = "route"
    /\ IF DegeneratePrompt(state.prompt)
          THEN /\ state' = ClassifyDegenerate(state)
               /\ UNCHANGED <<ext, raw>>
          ELSE IF ~HasGet(state.workflow)
          THEN /\ state' = ErrorHandler("classify_intent", state, NoGetAttr)
               /\ UNCHANGED <<ext, raw>>
          ELSE /\ ext' = ext \o <<"search", "llm">>
               /\ \E o \in ClassifierOutcomes :
                      /\ raw' = o
                      /\ state' = ClassifyCalled(state, o)
    /\ UNCHANGED <<config, locals, pre, turns>>

\* the conditional edge out of classify_intent; the reply classify_intent
\* read was a local of it
Route ==
    /\ pc = "route"
    /\ pc' = NodeFor(RouteIntent(state))
    /\ raw' = Ok(EmptyText)
    /\ UNCHANGED <<config, locals, state, trace, ext, pre, turns>>

\* a node that looks the context up twice
ContextLookupTwice(calls) == calls \o <<"search", "search">>

\* context = self._get_pinecone_context(...): the one lookup of a
\* downstream node, added to the external calls of the turn
ContextLookup(calls) == Append(calls, "search")

\* generate_workflow up to its call of _invoke_with_retry
GenerateWorkflow ==
    /\ pc = "generate_workflow"
    /\ trace' = Append(trace, "generate_workflow")
    /\ ext' = ContextLookup(ext)
    /\ structured' = TRUE
    /\ RetryEnter
    /\ pc' = "generate_workflow.invoke"
    /\ UNCHANGED <<config, state, pre, turns>>

\* modify_workflow up to its call of _invoke_with_retry
ModifyWorkflow ==
    /\ pc = "modify_workflow"
    /\ trace' = Append(trace, "modify_workflow")
    /\ ext' = ContextLookup(ext)
    /\ structured' = TRUE
    /\ RetryEnter
    /\ pc' = "modify_workflow.invoke"
    /\ UNCHANGED <<config, state, pre, turns>>

\* the wrapped handle_general node up to its call of _invoke_with_retry, or
\* to its end when the prompt holds a self-introduction
HandleGeneral ==
    /\ pc = "handle_general"
    /\ trace' = Append(trace, "handle_general")
    /\ ext' = ContextLookup(ext)
    /\ IF NameMatches(state.prompt.toks) # {}
          THEN /\ state' = GeneralGreeting(state)
               /\ pc' = "END"
               /\ UNCHANGED <<locals, raw>>
          ELSE /\ structured' = FALSE
               /\ RetryEnter
               /\ pc' = "handle_general.invoke"
               /\ UNCHANGED state
    /\ UNCHANGED <<config, pre, turns>>

\* one iteration of _invoke_with_retry inside a node
NodeCapabilityCall ==
    /\ pc \in {"generate_workflow.invoke", "modify_workflow.invoke", "handle_general.invoke"}
    /\ \E o \in NodeOutcomes : RetryAttempt(o)
    /\ ext' = Append(ext, "llm")
    /\ UNCHANGED <<mode, outcomes, pc, state, trace, pre, turns, ctxVars, auxVars>>

\* generate_workflow from the return of _invoke_with_retry on
GenerateWorkflowEnd ==
    /\ pc = "generate_workflow.invoke"
    /\ rstat \in {"returned", "raised"}
    /\ state' = GenerateResult(state, rstat, rval)
    /\ pc' = "END"
    /\ UNCHANGED <<config, locals, raw, trace, ext, pre, turns>>

\* modify_workflow from the return of _invoke_with_retry on
ModifyWorkflowEnd ==
    /\ pc = "modify_workflow.invoke"
    /\ rstat \in {"returned", "raised"}
    /\ state' = ModifyResult(state, rstat, rval)
    /\ pc' = "END"
    /\ UNCHANGED <<config, locals, raw, trace, ext, pre, turns>>

\* handle_general from the return of _invoke_with_retry on
HandleGeneralEnd ==
    /\ pc = "handle_general.invoke"
    /\ rstat \in {"returned", "raised"}
    /\ state' = GeneralResult(state, rstat, rval, rerr)
    /\ pc' = "END"
    /\ UNCHANGED <<config, locals, raw, trace, ext, pre, turns>>

\* the wrapped handle_unclear node
HandleUnclear ==
    /\ pc = "handle_unclear"
    /\ trace' = Append(trace, "handle_unclear")
    /\ state' = UnclearResult(state)
    /\ pc' = "END"
    /\ UNCHANGED <<config, locals, raw, ext, pre, turns>>

\* graph.invoke returns the state; the locals of the call are gone, and so
\* is the record of what the turn did
Return ==
    /\ pc = "END"
    /\ pc' = "idle"
    /\ turns' = turns + 1
    /\ structured' = FALSE
    /\ attempt' = 0
    /\ rstat' = "idle"
    /\ rval' = EmptyText
    /\ rerr' = NoExc
    /\ log' = <<>>
    /\ raw' = Ok(EmptyText)
    /\ trace' = <<>>
    /\ ext' = <<>>
    /\ pre' = state
    /\ UNCHANGED <<config, state>>

Next ==
    \/ Process
    \/ ClassifyIntent
    \/ Route
    \/ GenerateWorkflow
    \/ ModifyWorkflow
    \/ HandleGeneral
    \/ NodeCapabilityCall
    \/ GenerateWorkflowEnd
    \/ ModifyWorkflowEnd
    \/ HandleGeneralEnd
    \/ HandleUnclear
    \/ Return

Spec == Init /\ [][Next]_vars

---------------------------------------------------------------------------
(* graph.invoke as one step: what a process call returns when it runs alone *)

RECURSIVE RetryFrom(_, _, _)
\* _invoke_with_retry from attempt a on, with eff attempts allowed, the
\* capability answering as r says
RetryFrom(a, r, eff) ==
    IF a >= eff THEN [st |-> "raised", val |-> EmptyText, err |-> RetryLoopExited]
    ELSE LET o == NextReply(r, a)
         IN  IF o.ok THEN [st |-> "returned", val |-> ReturnValue(o), err |-> NoExc]
             ELSE IF IsLastAttempt(a, eff) THEN [st |-> "raised", val |-> EmptyText, err |-> o.err]
             ELSE RetryFrom(a + 1, r, eff)

\* the wrapped classify_intent node on state s
ClassifyNode(s, r) ==
    IF DegeneratePrompt(s.prompt) THEN ClassifyDegenerate(s)
    ELSE IF ~HasGet(s.workflow) THEN ErrorHandler("classify_intent", s, NoGetAttr)
    ELSE ClassifyCalled(s, r.classify)

\* the node the router chose, on state s
DownstreamNode(node, s, r) ==
    LET rr == RetryFrom(0, r, EffectiveRetries)
    IN  CASE node = "generate_workflow" -> GenerateResult(s, rr.st, rr.val)
          [] node = "modify_workflow" -> ModifyResult(s, rr.st, rr.val)
          [] node = "handle_unclear" -> UnclearResult(s)
          [] node = "handle_general" ->
                IF NameMatches(s.prompt.toks) # {} THEN GeneralGreeting(s)
                ELSE GeneralResult(s, rr.st, rr.val, rr.err)
          [] OTHER -> s

\* graph.invoke(s), the capabilities answering as r says
GraphInvoke(s, r) ==
    LET classified == ClassifyNode(s, r)
    IN  DownstreamNode(NodeFor(RouteIntent(classified)), classified, r)

---------------------------------------------------------------------------
(* SpecConcurrent: two process calls in flight on one graph object *)

\* the frame of the running call
OwnFrame ==
    [pc |-> pc, state |-> state, trace |-> trace, ext |-> ext, pre |-> pre,
     structured |-> structured, attempt |-> attempt, rstat |-> rstat, rval |-> rval,
     rerr |-> rerr, log |-> log, raw |-> raw, replies |-> replies]

\* a loop counter kept on the graph object, one for all calls
ResumedAttemptShared(f) == attempt

\* the loop counter of the call resumed: `for attempt in range(...)` is a
\* local of each _invoke_with_retry call
ResumedAttempt(f) == f.attempt

\* the replies given to one call
ReplyWorkflow == Ok(JsonDumps(JObj(List(<<"a">>), List(<<"a">>))))

ReplyProse == Ok(Plain(<<"We support GitHub and Jira.">>))

ReplyDown == Fail(Exc("ConnectionError", <<"transient">>))

ReplyTimeout == Fail(Exc("TimeoutError", <<"timed out">>))

ConcReplies ==
    {Replies(c, n) :
        c \in {Ok(Plain(<<"new_workflow">>)), Ok(Plain(<<" ", "modify_workflow">>)),
               Ok(Plain(<<"general">>)), ReplyDown},
        n \in {<<ReplyWorkflow, ReplyWorkflow, ReplyWorkflow>>,
               <<ReplyProse, ReplyProse, ReplyProse>>,
               <<ReplyDown, ReplyWorkflow, ReplyProse>>,
               <<ReplyDown, ReplyTimeout, ReplyWorkflow>>,
               <<ReplyDown, ReplyDown, ReplyTimeout>>,
               <<ReplyTimeout, ReplyProse, ReplyWorkflow>>}}

\* the turn state of the first call: a session never seen
ConcStates ==
    {[FreshState EXCEPT !.prompt = p] :
        p \in {Str(<<"create a workflow for Jira with GitHub">>), Str(<<"My name is ", "alice">>)}}

\* the turn state of the second call: a stored session
ConcOtherStates ==
    {[FreshState EXCEPT !.prompt = Str(<<"what is this?">>), !.intent = "general",
                        !.history = InputHistory("general"),
                        !.workflow = JObj(List(<<"a", "b">>), List(<<"a">>))]}

InitConcurrent ==
    /\ mode = "concurrent"
    /\ NodeIdle
    /\ retries = NoRetries
    /\ max_retries = DefaultMaxRetries
    /\ structured = FALSE
    /\ attempt = 0
    /\ rstat = "idle"
    /\ rval = EmptyText
    /\ rerr = NoExc
    /\ log = <<>>
    /\ raw = Ok(EmptyText)
    /\ outcomes = <<>>
    /\ pc = "classify_intent"
    /\ state \in ConcStates
    /\ trace = <<>>
    /\ ext = <<>>
    /\ pre = state
    /\ turns = 0
    /\ replies \in ConcReplies
    /\ other \in {[IdleFrame EXCEPT !.pc = "classify_intent", !.state = s, !.pre = s,
                                     !.replies = r] :
                      s \in ConcOtherStates, r \in ConcReplies}
    /\ ContextIdle
    /\ EngineIdle
    /\ HostIdle
    /\ HistIdle

\* the running call is suspended and the other one resumed
Switch ==
    /\ mode = "concurrent"
    /\ other.pc # "END"
    /\ other' = OwnFrame
    /\ pc' = other.pc
    /\ state' = other.state
    /\ trace' = other.trace
    /\ ext' = other.ext
    /\ pre' = other.pre
    /\ structured' = other.structured
    /\ attempt' = ResumedAttempt(other)
    /\ rstat' = other.rstat
    /\ rval' = other.rval
    /\ rerr' = other.rerr
    /\ log' = other.log
    /\ raw' = other.raw
    /\ replies' = other.replies
    /\ UNCHANGED <<mode, retries, max_retries, outcomes, turns, ctxVars, engVars, hostVars, histVars,
                   nodeVars>>

NextConcurrent ==
    \/ ClassifyIntent
    \/ Route
    \/ GenerateWorkflow
    \/ ModifyWorkflow
    \/ HandleGeneral
    \/ NodeCapabilityCall
    \/ GenerateWorkflowEnd
    \/ ModifyWorkflowEnd
    \/ HandleGeneralEnd
    \/ HandleUnclear
    \/ Switch

SpecConcurrent == InitConcurrent /\ [][NextConcurrent]_vars

\* C23: two process calls run concurrently on distinct turn states do not
\* interfere: with the same capability replies each ends in the state it
\* returns when run alone, and the graph object is as it was constructed
C23_NoInterference ==
    mode = "concurrent" =>
        /\ pc = "END" => state = GraphInvoke(pre, replies)
        /\ other.pc = "END" => other.state = GraphInvoke(other.pre, other.replies)
        /\ max_retries = DefaultMaxRetries
        /\ retries = NoRetries

\* a call that ended on its third attempt while the other call was suspended
\* inside its own retry loop, after its first attempt
C23_Witness ==
    /\ mode = "concurrent"
    /\ pc = "END"
    /\ rstat = "returned"
    /\ attempt = 2
    /\ other.rstat = "running"
    /\ other.attempt = 1
    /\ state.response # other.state.response

---------------------------------------------------------------------------
(* SpecHost: process_prompt (app.py), one request after another *)

\* the prompts of the requests
HostPrompts == {Str(<<"create a workflow for Jira with GitHub">>), Str(<<"what is this?">>)}

\* what the capabilities answer during one graph.ainvoke
HostReplies ==
    {Replies(Ok(Plain(<<"new_workflow">>)), <<ReplyWorkflow, ReplyWorkflow, ReplyWorkflow>>),
     Replies(Ok(Plain(<<"general">>)), <<ReplyTimeout, ReplyProse, ReplyProse>>),
     Replies(Ok(Plain(<<"modify_workflow">>)), <<Ok(JsonDumps(JList)), ReplyDown, ReplyDown>>),
     Replies(ReplyDown, <<ReplyDown, ReplyDown, ReplyDown>>)}

\* the second argument of both setex calls
StateTtl == 86400

ResponseTtl == 86400

\* truthiness of a text: "" is falsy
TextTruthy(t) == t.k # "plain" \/ t.toks # <<>>

\* "Here's your response." (with a typographic apostrophe)
HereMsg == Plain(<<"Here", "'", "s your response.">>)

AnythingElseToAddQ == Plain(<<"Anything else to add?">>)

\* a row of the interactions table
Row(session_id, prompt, response, workflow, s) ==
    [session_id |-> session_id, prompt |-> prompt, response |-> response,
     workflow |-> workflow, state |-> s]

\* the rows of a session, in timestamp order
RowsOf(session_id) == SelectSeq(db, LAMBDA row : row.session_id = session_id)

\* the effects of a request on the world outside the handler
GraphEffect == [op |-> "graph.ainvoke", key |-> <<>>, ttl |-> 0]

InsertEffect == [op |-> "insert", key |-> <<>>, ttl |-> 0]

SetexEffect(key, ttl) == [op |-> "setex", key |-> key, ttl |-> ttl]

\* the except branch: HTTPException(status_code=500, detail=f"Server error: {e}")
Failed(h, e) == [h EXCEPT !.pc = "failed", !.detail = <<"Server error: ">> \o e]

\* a handler that goes on to the graph although the cache answered
CacheHitRecomputes(h, e) == [h EXCEPT !.pc = "load_state"]

\* return WorkflowResponse(**json.loads(cached.decode()))
CacheHit(h, e) == [h EXCEPT !.pc = "done", !.response = e.response]

\* an exception of graph.ainvoke swallowed, the handler going on with the
\* state it had
GraphRaisedSwallowed(h, e) ==
    [h EXCEPT !.pc = "insert", !.graph = "raised",
              !.effects = Append(@, GraphEffect),
              !.conversation = HereMsg]

\* graph.ainvoke raises: control goes to the except branch
GraphRaised(h, e) ==
    Failed([h EXCEPT !.graph = "raised", !.effects = Append(@, GraphEffect)], e)

\* lines 144 to 148, graph.ainvoke having returned result
GraphReturned(h, result) ==
    LET g == [h EXCEPT !.graph = "returned", !.effects = Append(@, GraphEffect),
                       !.state = result]
    IN  IF ~HasGet(result.workflow) THEN Failed(g, NoGetAttr.msg)
        ELSE [g EXCEPT !.pc = "insert",
                       !.workflow = IF GetTruthy(result.workflow.structure)
                                       THEN result.workflow ELSE JNull,
                       !.conversation = IF TextTruthy(result.response)
                                           THEN result.response ELSE HereMsg]

\* the state the handler starts the turn from: the Redis entry, else the
\* state column of the latest row, else a fresh state whose history is the
\* (prompt, response) pairs of the rows
LoadedState(session_id) ==
    IF rstate[StateKey(session_id)].present THEN rstate[StateKey(session_id)].state
    ELSE IF RowsOf(session_id) # <<>>
       THEN RowsOf(session_id)[Len(RowsOf(session_id))].state
       ELSE [FreshState EXCEPT
                !.history = [i \in DOMAIN RowsOf(session_id) |->
                                <<RowsOf(session_id)[i].prompt, RowsOf(session_id)[i].response>>]]

InitHost ==
    /\ mode = "host"
    /\ NodeIdle
    /\ retries = NoRetries
    /\ max_retries = DefaultMaxRetries
    /\ structured = FALSE
    /\ attempt = 0
    /\ rstat = "idle"
    /\ rval = EmptyText
    /\ rerr = NoExc
    /\ log = <<>>
    /\ raw = Ok(EmptyText)
    /\ outcomes = <<>>
    /\ GraphIdle
    /\ ContextIdle
    /\ EngineIdle
    /\ ConcIdle
    /\ HostIdle
    /\ HistIdle

\* the entry points that run the handler: one request at a time, or two
\* in flight
HostModes == {"host", "overlap"}

notHost == <<mode, retryVars, graphVars, ctxVars, engVars, concVars, histVars, peer, nodeVars>>

\* a request arrives; the handler computes its keys
HostRequest ==
    /\ mode \in HostModes
    /\ handler.pc \in {"idle", "done", "failed", "cancelled"}
    /\ requests < MaxRequests
    /\ \E s \in Sessions, p \in HostPrompts :
          handler' = [IdleHandler EXCEPT !.pc = "cache_get", !.session_id = s, !.prompt = p,
                                         !.seen = [db |-> db, rstate |-> rstate,
                                                   rcache |-> rcache]]
    /\ requests' = requests + 1
    /\ UNCHANGED <<notHost, rcache, rstate, db>>

\* the lookup in the response cache and, on a hit, the return
HostCacheGet ==
    /\ mode \in HostModes
    /\ handler.pc = "cache_get"
    /\ \E ok \in BOOLEAN :
          LET cached == rcache[CacheKey(handler.session_id, handler.prompt)]
          IN  handler' = IF ~ok THEN Failed(handler, <<"redis get">>)
                         ELSE IF cached.present THEN CacheHit(handler, cached)
                         ELSE [handler EXCEPT !.pc = "load_state"]
    /\ UNCHANGED <<notHost, rcache, rstate, db, requests>>

\* get_db_connection, the session state from Redis or the database, and the
\* assignment of the prompt
HostLoadState ==
    /\ mode \in HostModes
    /\ handler.pc = "load_state"
    /\ \E ok \in BOOLEAN :
          handler' = IF ~ok THEN Failed(handler, <<"DB connection failed">>)
                     ELSE [handler EXCEPT
                              !.pc = "invoke",
                              !.base = LoadedState(handler.session_id),
                              !.state = [LoadedState(handler.session_id) EXCEPT
                                            !.prompt = handler.prompt]]
    /\ UNCHANGED <<notHost, rcache, rstate, db, requests>>

\* await graph.ainvoke(state) returning or raising, and the lines up to the
\* insert
HostInvoke ==
    /\ mode \in HostModes
    /\ handler.pc = "invoke"
    /\ \/ \E r \in HostReplies :
             handler' = GraphReturned(handler, GraphInvoke(handler.state, r))
       \/ handler' = GraphRaised(handler, <<"Recursion limit reached">>)
    /\ UNCHANGED <<notHost, rcache, rstate, db, requests>>

\* the request is cancelled while graph.ainvoke is awaited: the call does
\* not complete and the handler is left by CancelledError
HostCancelled ==
    /\ mode \in HostModes
    /\ handler.pc = "invoke"
    /\ handler' = [handler EXCEPT !.pc = "cancelled", !.graph = "cancelled",
                                   !.effects = Append(@, GraphEffect)]
    /\ UNCHANGED <<notHost, rcache, rstate, db, requests>>

\* INSERT INTO interactions ... RETURNING id
HostInsert ==
    /\ mode \in HostModes
    /\ handler.pc = "insert"
    /\ \E ok \in BOOLEAN :
          IF ~ok THEN /\ handler' = Failed(handler, <<"insert">>)
                      /\ UNCHANGED db
          ELSE /\ db' = Append(db, Row(handler.session_id, handler.prompt,
                                        handler.conversation, handler.state.workflow,
                                        handler.state))
               /\ handler' = [handler EXCEPT !.pc = "set_state",
                                              !.interaction_id = Len(db) + 1,
                                              !.effects = Append(@, InsertEffect)]
    /\ UNCHANGED <<notHost, rcache, rstate, requests>>

\* redis_client.setex(state_key, 86400, json.dumps(state))
HostSetState ==
    /\ mode \in HostModes
    /\ handler.pc = "set_state"
    /\ \E ok \in BOOLEAN :
          IF ~ok THEN /\ handler' = Failed(handler, <<"redis setex">>)
                      /\ UNCHANGED rstate
          ELSE /\ rstate' = [rstate EXCEPT ![StateKey(handler.session_id)] =
                                               StateEntry(StateTtl, handler.state)]
               /\ handler' = [handler EXCEPT
                                 !.pc = "respond",
                                 !.effects = Append(@, SetexEffect(StateKey(handler.session_id),
                                                                   StateTtl))]
    /\ UNCHANGED <<notHost, rcache, db, requests>>

\* the response, its setex under the cache key, and the return
HostRespond ==
    /\ mode \in HostModes
    /\ handler.pc = "respond"
    /\ \E ok \in BOOLEAN :
          LET response_data ==
                  WorkflowResponse(handler.conversation, handler.session_id, handler.workflow,
                                   IF TextTruthy(handler.state.next_question)
                                      THEN handler.state.next_question ELSE AnythingElseToAddQ,
                                   handler.interaction_id)
              cache_key == CacheKey(handler.session_id, handler.prompt)
          IN  IF ~ok THEN /\ handler' = Failed(handler, <<"redis setex">>)
                          /\ UNCHANGED rcache
              ELSE /\ rcache' = [rcache EXCEPT ![cache_key] =
                                                   ResponseEntry(ResponseTtl, response_data)]
                   /\ handler' = [handler EXCEPT
                                     !.pc = "done", !.response = response_data,
                                     !.effects = Append(@, SetexEffect(cache_key, ResponseTtl))]
    /\ UNCHANGED <<notHost, rstate, db, requests>>

\* an entry of Redis reaches its time to live, between two requests
HostExpire ==
    /\ mode \in HostModes
    /\ handler.pc \in {"done", "failed", "cancelled"}
    /\ \/ \E k \in StateKeys : /\ rstate[k].present
                                /\ rstate' = [rstate EXCEPT ![k] = NoEntry]
                                /\ UNCHANGED rcache
       \/ \E k \in CacheKeys : /\ rcache[k].present
                                /\ rcache' = [rcache EXCEPT ![k] = NoEntry]
                                /\ UNCHANGED rstate
    /\ handler' = IdleHandler
    /\ UNCHANGED <<notHost, db, requests>>

NextHost ==
    \/ HostRequest
    \/ HostCacheGet
    \/ HostLoadState
    \/ HostInvoke
    \/ HostCancelled
    \/ HostInsert
    \/ HostSetState
    \/ HostRespond
    \/ HostExpire

SpecHost == InitHost /\ [][NextHost]_vars

---------------------------------------------------------------------------
(* Two requests in flight: uvicorn runs process_prompt as a coroutine per
   request on one event loop, so at each await of one handler the other may
   run. Every step of the handler is an await (redis get, the connection, the
   graph, the insert, both setex), so the frames may swap between any two
   steps. *)

InitOverlap ==
    /\ mode = "overlap"
    /\ NodeIdle
    /\ retries = NoRetries
    /\ max_retries = DefaultMaxRetries
    /\ structured = FALSE
    /\ attempt = 0
    /\ rstat = "idle"
    /\ rval = EmptyText
    /\ rerr = NoExc
    /\ log = <<>>
    /\ raw = Ok(EmptyText)
    /\ outcomes = <<>>
    /\ GraphIdle
    /\ ContextIdle
    /\ EngineIdle
    /\ ConcIdle
    /\ HostIdle
    /\ HistIdle

\* the event loop resumes the other request's coroutine
HostSwitch ==
    /\ mode = "overlap"
    /\ handler # peer
    /\ handler' = peer
    /\ peer' = handler
    /\ UNCHANGED <<mode, retryVars, graphVars, ctxVars, engVars, concVars, histVars,
                   rcache, rstate, db, requests, nodeVars>>

\* each of the two frames serves one request; no entry of Redis expires
\* while the two are in flight
NextOverlap ==
    \/ (handler.pc = "idle" /\ HostRequest)
    \/ HostCacheGet
    \/ HostLoadState
    \/ HostInvoke
    \/ HostCancelled
    \/ HostInsert
    \/ HostSetState
    \/ HostRespond
    \/ HostSwitch

SpecOverlap == InitOverlap /\ [][NextOverlap]_vars

---------------------------------------------------------------------------
(* Claims on the graph, checked under Spec *)

DownstreamNodes == {"generate_workflow", "modify_workflow", "handle_unclear", "handle_general"}

\* a process call has run to its end
TurnEnded == mode = "graph" /\ pc = "END"

\* the downstream node the claim assigns to an intent
C1_NodeOf(intent) ==
    CASE intent = "new_workflow" -> "generate_workflow"
      [] intent = "modify_workflow" -> "modify_workflow"
      [] intent = "general" -> "handle_general"
      [] intent \in {"unclear", "None"} -> "handle_unclear"
      [] OTHER -> "no node"

C1_Positions ==
    /\ pc = "classify_intent" => trace = <<>>
    /\ pc = "route" => trace = <<"classify_intent">>
    /\ pc \in DownstreamNodes => trace = <<"classify_intent">> /\ pc = C1_NodeOf(state.intent)
    /\ pc = "generate_workflow.invoke" => trace = <<"classify_intent", "generate_workflow">>
    /\ pc = "modify_workflow.invoke" => trace = <<"classify_intent", "modify_workflow">>
    /\ pc = "handle_general.invoke" => trace = <<"classify_intent", "handle_general">>
    /\ pc = "END" => Len(trace) = 2 /\ trace[1] = "classify_intent" /\ trace[2] \in DownstreamNodes
    /\ mode = "graph" =>
           pc \in {"idle", "classify_intent", "route", "END", "generate_workflow.invoke",
                   "modify_workflow.invoke", "handle_general.invoke"} \cup DownstreamNodes

C1_Steps ==
    /\ pc = "classify_intent" => pc' = "route" /\ trace' = <<"classify_intent">>
    /\ pc = "route" => pc' = C1_NodeOf(state'.intent) /\ trace' = trace /\ state' = state
    /\ pc \in DownstreamNodes => trace' = <<"classify_intent", pc>>
    /\ pc = "generate_workflow" => pc' = "generate_workflow.invoke"
    /\ pc = "modify_workflow" => pc' = "modify_workflow.invoke"
    /\ pc = "handle_general" => pc' \in {"handle_general.invoke", "END"}
    /\ pc = "handle_unclear" => pc' = "END"
    /\ pc \in {"generate_workflow.invoke", "modify_workflow.invoke", "handle_general.invoke"} =>
           pc' \in {pc, "END"} /\ trace' = trace
    /\ pc = "END" => pc' = "idle" /\ state' = state

C2_DegeneratePromptTurn ==
    (TurnEnded /\ (state.prompt.type # "str" \/ state.prompt.toks = <<>>)) =>
        /\ state.intent = "unclear"
        /\ state.response = ClarifyMsg
        /\ state.awaiting_input = "True"
        /\ ext = <<>>
        /\ trace = <<"classify_intent", "handle_unclear">>

\* C2 witness: the second turn of a session, on a prompt that is not a
\* string, has ended
C2_Witness ==
    /\ TurnEnded
    /\ turns = 1
    /\ state.prompt = IntPrompt
    /\ pre.intent = "new_workflow"

\* toks is label w with whitespace outside and quote characters inside it,
\* on either side
C3_PaddedLabel(toks, w) ==
    \E p \in DOMAIN toks :
        /\ toks[p] = w
        /\ \E a \in 0 .. (p - 1) :
               /\ \A i \in 1 .. a : toks[i] = " "
               /\ \A i \in (a + 1) .. (p - 1) : toks[i] \in {"'", "\""}
        /\ \E b \in p .. Len(toks) :
               /\ \A i \in (p + 1) .. b : toks[i] \in {"'", "\""}
               /\ \A i \in (b + 1) .. Len(toks) : toks[i] = " "

\* C3: the intent stored for a raw classifier reply is the trimmed,
\* quote-stripped reply when that is one of the four labels and unclear
\* otherwise; and from classification on, hence after any turn and whatever
\* intent the input state held, state.intent is one of the four labels.
C3_IntentInClosedSet ==
    /\ (mode = "graph" /\ pc = "route" /\ ext # <<>> /\ raw.ok) =>
           /\ \A w \in {"new_workflow", "modify_workflow", "general", "unclear"} :
                  C3_PaddedLabel(raw.text.toks, w) => state.intent = w
           /\ state.intent # "unclear" => C3_PaddedLabel(raw.text.toks, state.intent)
    /\ (mode = "graph" /\ (pc \notin {"idle", "classify_intent"} \/ turns > 0)) =>
           state.intent \in {"new_workflow", "modify_workflow", "general", "unclear"}

\* C3 witness: the reply 'new_workflow', in quotes, was classified
C3_Witness ==
    /\ mode = "graph"
    /\ pc = "route"
    /\ raw = Ok(Plain(<<"'", "new_workflow", "\"">>))
    /\ state.intent = "new_workflow"
    /\ pre.intent = "bogus"

\* a text that is not the empty string
NonEmptyText(t) == t.k = "plain" => t.toks # <<>>

\* C4: after every turn response is a non-empty string and awaiting_input is
\* a definite boolean.
C4_ResponseNonEmpty ==
    TurnEnded =>
        /\ NonEmptyText(state.response)
        /\ state.awaiting_input \in {"True", "False"}

\* a field of a reply document that is missing, null or an empty list
C10_EmptyField(fv) == fv.p # "list" \/ fv.items = <<>>

\* generate_workflow ran and got from _invoke_with_retry a JSON object whose
\* structure or data is empty
C10_EmptyReply ==
    /\ TurnEnded
    /\ trace[2] = "generate_workflow"
    /\ rstat = "returned"
    /\ rval.k = "json"
    /\ rval.v.j = "obj"
    /\ (C10_EmptyField(rval.v.structure) \/ C10_EmptyField(rval.v.data))

\* C10: on a structured reply whose structure or data is empty,
\* generate_workflow sets workflow = {} and awaiting_input = true and asks
\* for more details; every other field is as it was when the turn began
\* (intent apart, set by classify_intent), so nothing of the reply document
\* is in the state.
C10_EmptyReplyDiscarded ==
    C10_EmptyReply =>
        state = [pre EXCEPT !.intent = "new_workflow",
                            !.workflow = JEmptyObj,
                            !.awaiting_input = "True",
                            !.response = NeedDetailsMsg,
                            !.next_question = SpecificsQ]

\* C10 witness: the reply had a structure of two nodes and an empty data
C10_Witness ==
    /\ C10_EmptyReply
    /\ rval = JsonDumps(JObj(List(<<"a", "b">>), List(<<>>)))
    /\ pre.workflow # JEmptyObj

\* the generation step of the node that ran failed: _invoke_with_retry raised
\* (a capability error on the last attempt, or no attempt left to make), or
\* what it returned does not parse
GenerationStepFailed == rstat = "raised" \/ (rstat = "returned" /\ ~JsonLoadsOk(rval))

\* C11: when the generation step fails (capability error, parse error, retry
\* exhaustion), modify_workflow leaves workflow as it was before the turn,
\* whereas generate_workflow sets workflow to {} whatever it held before.
C11_FailureFrame ==
    /\ (TurnEnded /\ trace[2] = "modify_workflow" /\ GenerationStepFailed) =>
           /\ state.workflow = pre.workflow
           /\ state.response = CouldntUpdateMsg
    /\ (TurnEnded /\ trace[2] = "generate_workflow" /\ GenerationStepFailed) =>
           /\ state.workflow = JEmptyObj
           /\ state.response = CouldntGenerateMsg

\* C11 witness: modify_workflow ran on a session holding a workflow of two
\* nodes, and every attempt of the generation step failed
C11_Witness ==
    /\ TurnEnded
    /\ trace[2] = "modify_workflow"
    /\ rstat = "raised"
    /\ rerr \in CapErrors
    /\ NumCalls = DefaultMaxRetries
    /\ pre.workflow = JObj(List(<<"a", "b">>), List(<<"a">>))
    /\ state.workflow = pre.workflow

\* a generate_workflow turn on a session holding a workflow ended on a reply
\* that does not parse
C11_GenerateReset ==
    /\ TurnEnded
    /\ trace[2] = "generate_workflow"
    /\ rstat = "returned"
    /\ ~JsonLoadsOk(rval)
    /\ pre.workflow = JObj(List(<<"a", "b">>), List(<<"a">>))
    /\ state.workflow = JEmptyObj

\* what the wrapper of node func leaves in the state when the body raised e
C12_Contained(func, e) ==
    /\ state.intent = "unclear"
    /\ state.awaiting_input = "True"
    /\ state.response.k = "plain"
    /\ state.response.toks # <<>>
    /\ state.error.set
    /\ state.error.message = e.msg
    /\ state.error.function = func

\* classify_intent has returned after the capability call it makes raised
C12_ClassifyCallRaised == mode = "graph" /\ pc = "route" /\ ext # <<>> /\ ~raw.ok

\* classify_intent has returned after state["workflow"].get raised, workflow
\* not being a dict
C12_ClassifyGetRaised ==
    /\ mode = "graph"
    /\ pc = "route"
    /\ ~DegeneratePrompt(state.prompt)
    /\ ~HasGet(state.workflow)

\* handle_general has returned after _invoke_with_retry raised
C12_GeneralRaised == TurnEnded /\ trace[2] = "handle_general" /\ rstat = "raised"

C13_CompleteState(s) ==
    /\ s.intent \in IntentSet
    /\ s.awaiting_input \in {"True", "False"}
    /\ s.response.k \in {"plain", "json", "fenced", "fencedplain"}
    /\ s.next_question.k = "plain"
    /\ s.workflow \in JValues
    /\ s.error.set \in BOOLEAN

\* a process call is under way
C13_InCall == mode = "graph" /\ pc \notin {"idle", "END"}

\* an upper bound on the steps a process call has left to make
C13_StepsLeft ==
    CASE pc = "classify_intent" -> EffectiveRetries + 5
      [] pc = "route" -> EffectiveRetries + 4
      [] pc \in DownstreamNodes -> EffectiveRetries + 3
      [] pc \in {"generate_workflow.invoke", "modify_workflow.invoke", "handle_general.invoke"} ->
             IF rstat = "running" THEN (EffectiveRetries - attempt) + 1 ELSE 1
      [] OTHER -> 0

C14_ModifySucceeded ==
    /\ TurnEnded
    /\ trace[2] = "modify_workflow"
    /\ rstat = "returned"
    /\ raw.ok
    /\ rval = raw.text
    /\ JsonLoadsOk(rval)

\* C14: when modify_workflow succeeds, workflow after the turn is exactly the
\* document parsed from the capability reply: the prior document is replaced
\* as a whole, and a field the reply does not have is not in the result.
C14_ReplyReplacesWorkflow ==
    C14_ModifySucceeded =>
        /\ state.workflow = raw.text.v
        /\ state = [pre EXCEPT !.intent = "modify_workflow",
                               !.workflow = raw.text.v,
                               !.response = UpdatedMsg,
                               !.next_question = AnythingElseQ,
                               !.awaiting_input = "True"]

\* C14 witness: the session held a workflow of two nodes and one data entry;
\* the reply was an object with no structure key and an empty data list
C14_Witness ==
    /\ C14_ModifySucceeded
    /\ pre.workflow = JObj(List(<<"a", "b">>), List(<<"a">>))
    /\ raw.text = JsonDumps(JObj(Missing, List(<<>>)))
    /\ state.workflow = JObj(Missing, List(<<>>))

\* handle_general ran on a prompt that matches "my name is (\w+)"
C15_IntroducedTurn ==
    /\ TurnEnded
    /\ trace[2] = "handle_general"
    /\ NameMatches(state.prompt.toks) # {}

\* the calls of the generation capability a turn made, classify_intent's
\* included
C15_GenerationCalls == Cardinality({p \in DOMAIN ext : ext[p] = "llm"})

\* C15 as stated: the response is the templated greeting containing the
\* captured name, and handle_general does not call the generation capability.
C15_Original ==
    C15_IntroducedTurn =>
        /\ state.response = Greeting(CapturedName(state.prompt.toks))
        /\ C15_GenerationCalls = 1
        /\ log = <<>>

\* C15, amended: the response is the templated greeting holding the captured
\* name as str.capitalize() renders it (first character upper case, the rest
\* lower case), which is the captured name only when it was typed that way;
\* handle_general does not call the generation capability: the only
\* generation call of the turn is the one classify_intent made.
C15_GreetingCapitalized ==
    C15_IntroducedTurn =>
        /\ state.response = Greeting(Capitalize(CapturedName(state.prompt.toks)))
        /\ state.next_question = AssistTodayQ
        /\ C15_GenerationCalls = 1
        /\ ext[2] = "llm"
        /\ log = <<>>
        /\ rstat = "idle"

\* C15 witness: the prompt "My name is alice" was classified general and
\* answered "Hi Alice! How can I assist you today?"
C15_Witness ==
    /\ C15_IntroducedTurn
    /\ CapturedName(state.prompt.toks) = "alice"
    /\ state.response = Plain(<<"Hi ", "Alice", "! How can I assist you today?">>)
    /\ state.intent = "general"

\* the external calls made after classify_intent returned.  classify_intent
\* makes none (short-circuit, or an error before its calls) or two, a search
\* then a generation call, and they are the first of the turn.
C16_DownstreamCalls == IF ext = <<>> THEN <<>> ELSE SubSeq(ext, 3, Len(ext))

\* C16: the fallback paths make no external call of any kind: handle_unclear,
\* and handle_general on a prompt matching the self-introduction pattern,
\* call neither the context search nor the generation capability.
C16_FallbacksMakeNoCall ==
    /\ (TurnEnded /\ trace[2] = "handle_unclear") => C16_DownstreamCalls = <<>>
    /\ C15_IntroducedTurn => C16_DownstreamCalls = <<>>

\* handle_unclear makes no external call
C16_UnclearMakesNoCall ==
    (TurnEnded /\ trace[2] = "handle_unclear") => C16_DownstreamCalls = <<>>

\* a self-introduction turn ends with handle_general having called the
\* context search once and nothing else
C16_GreetingSearched ==
    /\ C15_IntroducedTurn
    /\ ext = <<"search", "llm", "search">>

\* C18: generate_workflow and modify_workflow set awaiting_input = true on
\* every outcome (success, validation failure, capability failure), and so
\* does every other downstream node: after any completed turn awaiting_input
\* is true, whatever it was in the state the turn was given.
C18_AwaitingAfterTurn ==
    /\ TurnEnded => state.awaiting_input = "True"
    /\ (mode = "graph" /\ pc = "idle" /\ turns > 0) => state.awaiting_input = "True"

\* C18 witness: the first turn of a session, given awaiting_input false, ran
\* generate_workflow, whose generation step failed on every attempt
C18_Witness ==
    /\ TurnEnded
    /\ turns = 0
    /\ trace[2] = "generate_workflow"
    /\ rstat = "raised"
    /\ pre.awaiting_input = "False"
    /\ state.awaiting_input = "True"

\* the intent classify_intent left in the state, read off the node the
\* router chose for it
C19_ClassifiedIntent ==
    CASE trace[2] = "generate_workflow" -> "new_workflow"
      [] trace[2] = "modify_workflow" -> "modify_workflow"
      [] trace[2] = "handle_general" -> "general"
      [] OTHER -> "unclear"

C19_GeneralContained == pc = "handle_general.invoke" /\ rstat = "raised" /\ pc' = "END"

C20_NoNodeRaised ==
    /\ TurnEnded
    /\ \/ trace[2] \in {"generate_workflow", "modify_workflow"}
       \/ trace[2] = "handle_general" /\ rstat # "raised"
       \/ DegeneratePrompt(state.prompt)

C20_FirstTurnOnly == (C20_NoNodeRaised /\ turns = 0) => ~state.error.set

\* the second turn of a session ran without any node raising and ended with
\* the error of the first turn still in the state
C20_StaleError ==
    /\ C20_NoNodeRaised
    /\ turns = 1
    /\ trace[2] = "generate_workflow"
    /\ state.response = CreatedMsg
    /\ state.error = pre.error
    /\ state.error.function = "handle_general"

\* whether sequence p is a prefix of sequence h
IsPrefix(p, h) == Len(p) <= Len(h) /\ SubSeq(h, 1, Len(p)) = p

\* C21: history is append-only across turns: in every turn the history of
\* the output state has the history of the input state as a prefix, the
\* pairs it held in the same order.  (No node writes history, so the two are
\* equal.)
C21_HistoryAppendOnly ==
    /\ TurnEnded => IsPrefix(pre.history, state.history)
    /\ (mode = "graph" /\ pc # "idle") => state.history = pre.history

\* C21 witness: the second turn of a session that came with two earlier
\* interactions has ended, and the two pairs are still there, in order
C21_Witness ==
    /\ TurnEnded
    /\ turns = 1
    /\ pre.history = <<<<"hi", "Hello!">>, <<"what is this?", "A workflow agent.">>>>
    /\ state.history = pre.history
    /\ trace[2] = "handle_unclear"

\* the document invariant: non-empty structure, non-empty data, and for
\* every structure node a data entry of the same name
C22_Complete(w) ==
    /\ w.j = "obj"
    /\ w.structure.p = "list" /\ w.structure.items # <<>>
    /\ w.data.p = "list" /\ w.data.items # <<>>
    /\ \A i \in DOMAIN w.structure.items :
           \E k \in DOMAIN w.data.items : w.data.items[k] = w.structure.items[i]

\* C22: whenever a turn ends with a response announcing that a workflow was
\* created or updated, workflow has a non-empty structure, a non-empty data
\* and a data entry named as each structure node; a document that is not so
\* is never handed off without the response saying it is incomplete.
C22_AnnouncedWorkflowComplete ==
    (TurnEnded /\ state.response \in {CreatedMsg, UpdatedMsg}) => C22_Complete(state.workflow)

\* generate_workflow announced a workflow whose second node has no data entry
C22_OrphanNodeAnnounced ==
    /\ TurnEnded
    /\ trace[2] = "generate_workflow"
    /\ state.response = CreatedMsg
    /\ state.workflow = JObj(List(<<"a", "b">>), List(<<"a">>))

\* modify_workflow announced an update and stored the empty object
C22_EmptyUpdateAnnounced ==
    /\ TurnEnded
    /\ trace[2] = "modify_workflow"
    /\ state.response = UpdatedMsg
    /\ state.workflow = JEmptyObj

---------------------------------------------------------------------------
(* Claims about the workflow engine *)

\* execute has ended, by a return or by an exception
EngineEnded == estat \in {"returned", "raised"}

\* the document is a dict whose structure and data are lists
ListsDoc == edoc.j = "obj" /\ edoc.structure.p = "list" /\ edoc.data.p = "list"

\* node i of the structure has a data entry with its name
HasEntry(i) ==
    /\ edoc.structure.items[i].keys
    /\ EntriesNamed(edoc, edoc.structure.items[i].name) # {}

\* the data entry of node i
EntryOf(i) == edoc.data.items[FirstOf(EntriesNamed(edoc, edoc.structure.items[i].name))]

\* node i of the structure has its keys and no data entry with its name
Orphan(i) ==
    /\ edoc.structure.items[i].keys
    /\ EntriesNamed(edoc, edoc.structure.items[i].name) = {}

\* every structure node has a data entry with its name
AllMatched == ListsDoc /\ \A i \in DOMAIN edoc.structure.items : HasEntry(i)

\* C27: when every structure node has a data entry with the same name,
\* execute returns status 'completed' with exactly one step per structure
\* node, in structure order
C27_AllMatchedCompletes ==
    (EngineEnded /\ AllMatched) =>
        /\ eresult.kind = "acc"
        /\ eresult.status = "completed"
        /\ Len(eresult.steps) = Len(edoc.structure.items)
        /\ \A i \in DOMAIN eresult.steps :
               eresult.steps[i].node = edoc.structure.items[i].name

\* every node is of type normal with a data entry of type EXTERNAL_SOURCE or
\* SCM_ACTION
SourcesAndActions ==
    /\ AllMatched
    /\ \A i \in DOMAIN edoc.structure.items :
           /\ Upper(edoc.structure.items[i].type) = "NORMAL"
           /\ EntryOf(i).type \in {"EXTERNAL_SOURCE", "SCM_ACTION"}

\* C28: a normal node with an EXTERNAL_SOURCE data entry produces a step with
\* status 'triggered', one with an SCM_ACTION data entry is dispatched to the
\* SCM executor with that entry, and the execution status is 'completed'
C28_SourceTriggeredActionDispatched ==
    (EngineEnded /\ SourcesAndActions) =>
        /\ eresult.kind = "acc"
        /\ eresult.status = "completed"
        /\ \A i \in DOMAIN edoc.structure.items :
               IF EntryOf(i).type = "EXTERNAL_SOURCE"
                  THEN /\ i \in DOMAIN eresult.steps
                       /\ eresult.steps[i].status = "triggered"
                  ELSE \E k \in DOMAIN dispatched :
                           dispatched[k] = [node |-> i, entry |-> EntryOf(i)]

\* the result of a run that stopped at node k for want of a data entry
FailedFastAt(k) ==
    /\ eresult.kind = "acc"
    /\ eresult.status = "failed"
    /\ Len(eresult.steps) = k
    /\ eresult.steps[k] = Step(edoc.structure.items[k].name, "", "failed", "", "No matching data")
    /\ \A i \in 1 .. k - 1 :
           /\ eresult.steps[i].node = edoc.structure.items[i].name
           /\ eresult.steps[i].reason = ""
    /\ \A d \in DOMAIN dispatched : dispatched[d].node < k

C30_NeverRaises ==
    /\ estat # "raised"
    /\ estat = "returned" =>
           /\ eresult.status \in {"completed", "failed"}
           /\ eresult.kind = "error" => eresult.error # <<>>

---------------------------------------------------------------------------
(* Claims about the request handler, checked under SpecHost *)

\* the stores are as they were when the request in hand arrived
StoresUntouched ==
    /\ db = handler.seen.db
    /\ rstate = handler.seen.rstate
    /\ rcache = handler.seen.rcache

\* the response cache held an entry under the key of the request in hand
\* when it arrived
CacheHeld ==
    /\ mode = "host"
    /\ handler.pc # "idle"
    /\ handler.seen.rcache[CacheKey(handler.session_id, handler.prompt)].present

\* C24: when the response cache holds an entry under
\* cache:{session_id}:{sha256(prompt)}, the handler returns that entry: the
\* graph is not invoked, no row is inserted, and neither the session state
\* nor the response cache is written
C24_CacheHitReturnsEntry ==
    CacheHeld =>
        /\ handler.pc \in {"cache_get", "done", "failed"}
        /\ handler.effects = <<>>
        /\ StoresUntouched
        /\ handler.pc = "done" =>
               handler.response =
                   handler.seen.rcache[CacheKey(handler.session_id, handler.prompt)].response

\* a request answered from the cache with the response of an earlier request
\* that went through the graph
C24_Witness ==
    /\ CacheHeld
    /\ handler.pc = "done"
    /\ handler.response.interaction_id = 1
    /\ Len(db) = 1
    /\ handler.response.session_id = handler.session_id

\* the effects of a request that missed the cache and ran to its end
FullEffects ==
    <<GraphEffect, InsertEffect,
      [op |-> "setex", key |-> <<"state", handler.session_id>>, ttl |-> 86400],
      [op |-> "setex", key |-> <<"cache", handler.session_id, Sha256(handler.prompt)>>,
       ttl |-> 86400]>>

\* the request in hand missed the response cache and was answered
MissAnswered ==
    /\ mode = "host"
    /\ handler.pc = "done"
    /\ ~handler.seen.rcache[CacheKey(handler.session_id, handler.prompt)].present

\* C25: on a cache miss the handler invokes the graph once, then inserts one
\* row, then writes the session state under state:{session_id}, then the
\* response under the cache key, in that order, both with a TTL of 86400
C25_MissSequence ==
    /\ mode = "host" => IsPrefix(handler.effects, FullEffects)
    /\ MissAnswered =>
           /\ handler.effects = FullEffects
           /\ db = Append(handler.seen.db,
                           Row(handler.session_id, handler.prompt, handler.conversation,
                               handler.state.workflow, handler.state))
           /\ rstate = [handler.seen.rstate EXCEPT
                           ![<<"state", handler.session_id>>] =
                               [present |-> TRUE, ttl |-> 86400, state |-> handler.state,
                                response |-> NoResponse]]
           /\ rcache = [handler.seen.rcache EXCEPT
                           ![<<"cache", handler.session_id, Sha256(handler.prompt)>>] =
                               [present |-> TRUE, ttl |-> 86400, state |-> FreshState,
                                response |-> handler.response]]

\* a second request of a session that missed the cache and was answered with
\* a workflow
C25_Witness ==
    /\ MissAnswered
    /\ Len(db) = 2
    /\ handler.response.interaction_id = 2
    /\ handler.response.workflow # JNull
    /\ db[1].session_id = handler.session_id

\* graph.ainvoke raised, or has not completed, for the request in hand
GraphNotCompleted ==
    /\ mode = "host"
    /\ \/ handler.graph \in {"raised", "cancelled"}
       \/ handler.pc = "invoke"

\* C26: only a completed process call is persisted: when graph.ainvoke
\* raises or does not complete, the handler writes nothing to the database,
\* to the session state key or to the response cache, and the persisted
\* session state is unchanged
C26_OnlyCompletedPersisted ==
    /\ GraphNotCompleted =>
           /\ StoresUntouched
           /\ handler.pc \in {"invoke", "failed", "cancelled"}
           /\ \A i \in DOMAIN handler.effects : handler.effects[i].op = "graph.ainvoke"
    /\ (mode = "host" /\ handler.pc # "idle" /\ ~StoresUntouched) => handler.graph = "returned"

\* a raise of graph.ainvoke in the second request of a session whose first
\* was persisted
C26_Witness ==
    /\ GraphNotCompleted
    /\ handler.pc = "failed"
    /\ handler.graph = "raised"
    /\ rstate[StateKey(handler.session_id)].present
    /\ Len(db) = 1

\* node i has a data entry and its (node type, data type) pair is none of
\* (NORMAL, EXTERNAL_SOURCE), (NORMAL, SCM_ACTION) and (BRANCH, None)
UnlistedPair(i) ==
    /\ HasEntry(i)
    /\ DispatchKey(Upper(edoc.structure.items[i].type), EntryOf(i))
           \notin {<<"NORMAL", "EXTERNAL_SOURCE">>, <<"NORMAL", "SCM_ACTION">>,
                    <<"BRANCH", "None">>}

\* C31: for every (node type, data type) pair outside the three listed ones
\* the dispatch takes the default arm and records a step with status
\* 'failed' and result 'Invalid node type'
C31_DefaultArm ==
    (EngineEnded /\ ListsDoc /\ Len(edoc.structure.items) = 1 /\ UnlistedPair(1)) =>
        /\ eresult.kind = "acc"
        /\ Len(eresult.steps) = 1
        /\ eresult.steps[1].status = "failed"
        /\ eresult.steps[1].result = "Invalid node type"

\* C39: when execute returns overall status 'completed', no step of the
\* result has status 'failed'
C39_CompletedHasNoFailedStep ==
    (estat = "returned" /\ eresult.status = "completed") =>
        \A i \in DOMAIN eresult.steps : eresult.steps[i].status # "failed"

\* the external calls of classify_intent in the turn: none, or a context
\* lookup followed by one generation call
C34_ClassifyCalls == IF ext = <<>> THEN <<>> ELSE SubSeq(ext, 1, 2)

\* calls is empty, or one context lookup followed by at most n generation
\* calls
C34_OneSequence(calls, n) ==
    calls # <<>> =>
        /\ calls[1] = "search"
        /\ \A i \in 2 .. Len(calls) : calls[i] = "llm"
        /\ Len(calls) - 1 <= n

\* C34 as stated: one node executes per process call, and the whole call
\* makes at most one context lookup, followed by the generation calls of one
\* retry sequence
C34_Original ==
    TurnEnded =>
        /\ Len(trace) = 1
        /\ C34_OneSequence(ext, IF max_retries > 0 THEN max_retries ELSE 0)

\* C34: a process call executes classify_intent and then exactly one
\* downstream node, and each of the two makes at most one sequence of
\* (context lookup, generation calls): classify_intent one lookup and one
\* generation call, the downstream node one lookup followed by the calls of
\* one retry sequence; a call makes at most two context lookups
C34_OneSequencePerNode ==
    mode = "graph" =>
        /\ Len(trace) <= 2
        /\ TurnEnded => Len(trace) = 2
        /\ C34_OneSequence(C34_ClassifyCalls, 1)
        /\ C34_ClassifyCalls # <<>> => Len(C34_ClassifyCalls) = 2
        /\ C34_OneSequence(C16_DownstreamCalls, IF max_retries > 0 THEN max_retries ELSE 0)
        /\ Len(trace) <= 1 => C16_DownstreamCalls = <<>>

\* a turn whose downstream node looked the context up once and called the
\* generation capability twice, after the two calls of classify_intent
C34_Witness ==
    /\ TurnEnded
    /\ ext = <<"search", "llm", "search", "llm", "llm">>

\* the turn in hand has not run generate_workflow or modify_workflow
C35_NoReplacingNode ==
    /\ mode = "graph"
    /\ pc # "idle"
    /\ Len(trace) < 2 \/ trace[2] \in {"handle_unclear", "handle_general"}
    /\ pc \notin {"generate_workflow", "modify_workflow"}

\* C35: the workflow document is carried forward unless replaced by generate
\* or modify: classify_intent, handle_unclear and handle_general leave
\* state.workflow as the turn was given it on every path, also when the
\* error-containment wrapper catches an error
C35_WorkflowCarriedForward ==
    /\ C35_NoReplacingNode => state.workflow = pre.workflow
    /\ (mode = "graph" /\ pc \in {"generate_workflow", "modify_workflow"}) =>
           state.workflow = pre.workflow

\* a turn on a stored workflow in which handle_general raised and the
\* wrapper contained the error
C35_Witness ==
    /\ TurnEnded
    /\ trace[2] = "handle_general"
    /\ state.error.set
    /\ state.error.function = "handle_general"
    /\ pre.workflow = JObj(List(<<"a", "b">>), List(<<"a">>))
    /\ state.workflow = pre.workflow

\* C36: after a request completes through the host, the session state the
\* host persists has a history whose last pair is (the prompt of that turn,
\* the response of that turn)
C36_TurnInPersistedHistory ==
    MissAnswered =>
        LET history == rstate[StateKey(handler.session_id)].state.history
        IN  /\ history # <<>>
            /\ history[Len(history)] = <<handler.prompt, handler.conversation>>

\* C38: persistence of a turn is all-or-nothing across the three stores:
\* when the handler answers with an error none of the row, the session state
\* and the response cache entry of the turn has been written, and when it
\* answers a request that went through the graph the Redis session state is
\* the state column of the latest row of the session
C38_AllOrNothing ==
    /\ (mode = "host" /\ handler.pc = "failed") => StoresUntouched
    /\ MissAnswered =>
           /\ RowsOf(handler.session_id) # <<>>
           /\ rstate[StateKey(handler.session_id)].present
           /\ rstate[StateKey(handler.session_id)].state =
                  RowsOf(handler.session_id)[Len(RowsOf(handler.session_id))].state

\* both requests were answered after going through the graph, on one session
\* and with different prompts
BothAnswered ==
    /\ mode = "overlap"
    /\ handler.pc = "done" /\ peer.pc = "done"
    /\ handler.effects = FullEffects /\ peer.effects = <<GraphEffect, InsertEffect,
                               SetexEffect(StateKey(peer.session_id), StateTtl),
                               SetexEffect(CacheKey(peer.session_id, peer.prompt), ResponseTtl)>>
    /\ handler.session_id = peer.session_id
    /\ handler.prompt # peer.prompt

\* the persisted state is what running first `first` and then `second` leaves:
\* `second` started from the state `first` persisted, and its state is the one
\* in Redis
SerialOrder(first, second) ==
    /\ second.base = first.state
    /\ rstate[StateKey(second.session_id)].present
    /\ rstate[StateKey(second.session_id)].state = second.state

\* C37: when two overlapping requests on one session with different prompts
\* have both completed, the persisted session state is the one some serial
\* order of the two leaves, so no update is lost
C37_NoLostUpdate ==
    BothAnswered => SerialOrder(handler, peer) \/ SerialOrder(peer, handler)

\* the node's call of the model is over: it returned or raised
NodeEnded == rstat \in {"returned", "raised"}

\* the retry bounds multiplied for a node behind _invoke_with_retry, the
\* bound of LLMService.invoke alone for classify_intent
ModelCallBound ==
    IF Wrapped(llm.node) THEN max_retries * llm.max_retries ELSE llm.max_retries

\* C40: a node invocation makes at most MAX_WORKFLOW_RETRIES x
\* MAX_LLM_RETRIES model calls when it goes through _invoke_with_retry
\* (generate, modify, general) and at most MAX_LLM_RETRIES in
\* classify_intent, and it ends: the call returns or raises
C40_BoundedModelCalls ==
    /\ [](mode = "node" => llm.calls <= ModelCallBound)
    /\ <>NodeEnded

\* a wrapped node whose every model call failed: both loops ran to their
\* bounds and the product of the bounds was reached
C40_Witness ==
    /\ mode = "node"
    /\ rstat = "raised"
    /\ Wrapped(llm.node)
    /\ max_retries >= 2
    /\ llm.max_retries >= 2
    /\ llm.calls = max_retries * llm.max_retries

=============================================================================
